---------------------------- MODULE Spec2Model ----------------------------
(***************************************************************************)
(* Booking API of xenoxe/mail (src/src/index.ts over src/server/index.ts): *)
(* the bookings table, the Stripe checkout sessions that reference it, and *)
(* the request handlers that create, pay, re-status and erase bookings.    *)
(*                                                                         *)
(* Each action is one HTTP request handled from start to end (the handlers *)
(* use the synchronous better-sqlite3 driver; the only awaits are the      *)
(* Stripe and SMTP calls).  `last`, `mail` and `audit` hold what the last  *)
(* request answered, handed to the mail transport and wrote to the audit   *)
(* log.                                                                    *)
(***************************************************************************)
EXTENDS Integers, Sequences, FiniteSets, TLC

(* ------------------------------ bounds -------------------------------- *)

\* Calendar days a request may name: 1..MaxDate (day 0 is the eve of day 1).
MaxDate == 1
\* Rows the bookings table may ever hold (AUTOINCREMENT ids 1..MaxBookings).
MaxBookings == 2
\* Checkout sessions ever created with booking data in their metadata.
MaxDataSessions == 2
\* Checkout sessions ever created for an existing booking id.
MaxIdSessions == 1
\* Distinct customers (e-mail addresses).
NumCustomers == 1
\* Calendar years getNthWeekdayOfMonth is applied to, from EpochYear on.
NumYears == 2
\* Requests a rate limiter of the mail service still lets through, at most,
\* when the mail service is first observed.
MaxRemaining == 1
\* Pieces (texts and placeholders) of a template and of a subject.
MaxTemplateLen == 2
\* Requests being handled at the same time.
MaxInflight == 2
\* Rows the admins table is ever given.
MaxAdmins == 2
\* Password-reset tokens ever created.
MaxTokens == 1

(* ------------------------- program constants -------------------------- *)

\* Placeholders of the insertBooking statement.
InsertBookingPlaceholders == 20
\* Values POST /api/booking binds to insertBooking.
BookingRequestBindCount == 18
\* Values the payment handlers bind to insertBooking.
PaymentBindCount == 20

\* SQL NULL, JavaScript null / undefined / "".
NULL == -1
\* No preferredDate given.
NoDate == NULL
NoLimit == -1
DefaultTime == "09:00"
Operator == "smtpTo"

\* Stripe names the sessions; the model numbers them, by kind.
DataSessionIds == 1..MaxDataSessions
IdSessionIds == (MaxDataSessions + 1)..(MaxDataSessions + MaxIdSessions)
SessionIds == DataSessionIds \cup IdSessionIds
Min(S) == CHOOSE x \in S : \A y \in S : x <= y

Dates == 1..MaxDate
DateInputs == Dates \cup {NoDate}
TimeInputs == {"", "10:00"}
Emails == 1..NumCustomers
Services == {"std", "pro"}
Cities == {"lyon", "paris", "lille", "nice"}
\* The allow-list left out: every status of the request body is accepted.
validStatuses_Unchecked == {"pending", "confirmed", "completed", "cancelled", "awaiting_payment", "bogus"}
validStatuses == {"pending", "confirmed", "completed", "cancelled", "awaiting_payment"}
StatusInputs == validStatuses \cup {"bogus"}

VARIABLES
    bookings,      \* rows of the bookings table
    nextId,        \* next AUTOINCREMENT id of the bookings table
    sessions,      \* checkout sessions held by Stripe, by session id
    config,        \* config table: max_bookings_per_day, time_selection_enabled, test_mode_enabled
    services,      \* services table: service_id -> max_bookings_per_day (NoLimit is SQL NULL)
    cities,        \* service_cities table: city_name -> enabled, cutoff_date (NULL: none)
    env,           \* process environment: SMTP credentials set, Stripe key is a live key
    passages,      \* passage columns of the services and service_cities tables
    variants,      \* rows of the service_variants table: id, service
    inflight,      \* requests being handled: the await each one waits at
    admins,        \* rows of the admins table
    adminSeq,      \* last AUTOINCREMENT id given out by the admins table
    tokens,        \* rows of the password_reset_tokens table
    hits,          \* request counts of the mail service's rate limiters, current window
    last,          \* the last request and its answer
    mail,          \* sendMail calls of the last request
    audit          \* audit rows written by the last request

vars == <<bookings, nextId, sessions, config, services, cities, env, passages, variants,
          inflight, admins, adminSeq, tokens, hits, last, mail, audit>>
accounts == <<admins, adminSeq, tokens>>
conf == <<config, services, cities, env, passages, variants, inflight, accounts, hits>>

(* --------------------------- dbQueries -------------------------------- *)

getBookingById(rows, id) == {b \in rows : b.id = id}

countPaidBookingsByDate(rows, d) ==
    Cardinality({b \in rows : b.preferred_date = d /\ b.status # "cancelled"
                               /\ b.payment_status = "paid"})

\* The count without its payment_status = 'paid' condition.
countPaidBookingsByDateAndService_AnyPayment(rows, d, svc) ==
    Cardinality({b \in rows : b.preferred_date = d /\ b.service_type = svc
                               /\ b.status # "cancelled"})

countPaidBookingsByDateAndService(rows, d, svc) ==
    Cardinality({b \in rows : b.preferred_date = d /\ b.service_type = svc
                               /\ b.status # "cancelled" /\ b.payment_status = "paid"})

\* SELECT preferred_date, COUNT(*) ... GROUP BY preferred_date: one row for
\* each date of the range that has a paid, non-cancelled booking.
getPaidBookingsByDateRange(rows, start, end) ==
    LET paid == {b \in rows : /\ b.preferred_date >= start /\ b.preferred_date <= end
                               /\ b.status # "cancelled" /\ b.payment_status = "paid"}
    IN [d \in {b.preferred_date : b \in paid} |->
           Cardinality({b \in paid : b.preferred_date = d})]

getPaidBookingsByDateRangeAndService(rows, start, end, svc) ==
    LET paid == {b \in rows : /\ b.preferred_date >= start /\ b.preferred_date <= end
                               /\ b.service_type = svc
                               /\ b.status # "cancelled" /\ b.payment_status = "paid"}
    IN [d \in {b.preferred_date : b \in paid} |->
           Cardinality({b \in paid : b.preferred_date = d})]

checkBookingConflict(rows, d, t) ==
    {b \in rows : b.preferred_date = d /\ b.preferred_time = t /\ b.status # "cancelled"}

updateBookingStatus(rows, st, id) ==
    {IF b.id = id THEN [b EXCEPT !.status = st] ELSE b : b \in rows}

updateBookingPayment(rows, pi, sid, ps, id) ==
    {IF b.id = id
        THEN [b EXCEPT !.stripe_payment_intent_id = pi,
                       !.stripe_session_id = sid,
                       !.payment_status = ps]
        ELSE b : b \in rows}

\* The table without its UNIQUE constraint.
UniqueDateTime_Unconstrained(rows, d, t) == TRUE

\* UNIQUE(preferred_date, preferred_time) of CREATE TABLE bookings.
UniqueDateTime(rows, d, t) ==
    \A b \in rows : ~(b.preferred_date = d /\ b.preferred_time = t)

\* insertBooking.run(...): the driver refuses a bind list whose length is not
\* the statement's placeholder count, then SQLite enforces the UNIQUE
\* constraint; the row gets the next id and the column default status.
insertBooking(rows, id, argc, email, svc, d, t, sid, ps) ==
    IF argc # InsertBookingPlaceholders
    THEN [err |-> "RangeError", rows |-> rows]
    ELSE IF ~UniqueDateTime(rows, d, t)
    THEN [err |-> "SQLITE_CONSTRAINT_UNIQUE", rows |-> rows]
    ELSE [err |-> "",
          rows |-> rows \cup {[id |-> id, email |-> email, service_type |-> svc,
                               preferred_date |-> d, preferred_time |-> t,
                               status |-> "pending", payment_status |-> ps,
                               stripe_session_id |-> sid,
                               stripe_payment_intent_id |-> NULL]}]

(* ----------------------- capacity resolution -------------------------- *)

\* serviceData.max_bookings_per_day !== null && !== undefined
useServiceLimit(svc) == svc \in DOMAIN services /\ services[svc] # NoLimit

maxBookingsPerDay(svc) ==
    IF useServiceLimit(svc) THEN services[svc] ELSE config.max_bookings_per_day

currentCount(rows, d, svc) ==
    IF useServiceLimit(svc)
    THEN countPaidBookingsByDateAndService(rows, d, svc)
    ELSE countPaidBookingsByDate(rows, d)

\* fullDates of GET /api/bookings/available-dates: the grouped rows whose
\* count reaches the limit; svc is "" when the query names no serviceType.
fullDates(rows, svc, start, end) ==
    LET paidBookingsByDate ==
            IF useServiceLimit(svc)
            THEN getPaidBookingsByDateRangeAndService(rows, start, end, svc)
            ELSE getPaidBookingsByDateRange(rows, start, end)
    IN {d \in DOMAIN paidBookingsByDate : paidBookingsByDate[d] >= maxBookingsPerDay(svc)}

(* ------------------------------ Stripe -------------------------------- *)

\* session.payment_intent of session sid.
PaymentIntent(sid) == sid

\* isTestMode && !testModeEnabled: session.livemode follows the Stripe key.
TestIgnored == ~env.livemode /\ ~config.test_mode_enabled

\* A request and its answer: the handler, the session and booking it was about,
\* the HTTP status, the ok / received flag, the error ("" for none) and the
\* date the error message names.
Answer(op, sid, bid, code, ok, err) ==
    [op |-> op, sid |-> sid, bid |-> bid, code |-> code, ok |-> ok, err |-> err,
     names |-> NULL]

\* 400 "Les reservations pour <city> sont fermees au-dela du <cutoff_date>":
\* cutoffDate.toLocaleDateString('fr-FR'), the process running at or east of UTC.
CutoffAnswer(op, city) ==
    [Answer(op, NULL, NULL, 400, FALSE, "cutoff") EXCEPT !.names = cities[city].cutoff_date]

\* passage1_week, passage1_day, passage2_week, passage2_day all NULL.
NoPassage ==
    [passage1_week |-> NULL, passage1_day |-> NULL,
     passage2_week |-> NULL, passage2_day |-> NULL]

\* A slot for a payment confirmation being handled: the promise it awaits
\* (pc), the answer it will send, and how its last sendMail call ended.
Requests == 1..MaxInflight
\* req.body and req.params of an admin request waiting at an await.
NoBody == [id |-> NULL, username |-> "", password |-> "", role |-> "", token |-> NULL,
           old |-> ""]
Idle ==
    [pc |-> "idle", kind |-> "", sid |-> NULL, answer |-> Answer("", NULL, NULL, 0, TRUE, ""),
     sent |-> "", transport |-> "", arg |-> NoBody]
NoRequests == [r \in Requests |-> Idle]

\* No request counted yet in the current windows of the two limiters.
NoHits == [general |-> 0, email |-> 0]

ConfirmationMail(b) == [kind |-> "confirmation", to |-> Operator, replyTo |-> b.email]
DateFullMail(email) == [kind |-> "date_full_refund", to |-> Operator, replyTo |-> email]

Init ==
    /\ bookings = {}
    /\ nextId = 1
    /\ sessions = [i \in {} |-> 0]
    \* The general limit is 2 a day; "pro" has its own limit of 1, "std" has none.
    /\ config = [max_bookings_per_day |-> 2,
                 time_selection_enabled |-> FALSE,
                 test_mode_enabled |-> FALSE]
    /\ services = [s \in Services |-> IF s = "pro" THEN 1 ELSE NoLimit]
    \* lyon is closed from day 1 on, paris is open up to the last day, lille has
    \* no cutoff date, nice is disabled.
    /\ cities = [c \in Cities |->
                   [enabled |-> c # "nice",
                    cutoff_date |-> CASE c = "lyon" -> 0
                                      [] c = "paris" -> MaxDate
                                      [] OTHER -> NULL]]
    /\ env \in {[smtp |-> TRUE, livemode |-> TRUE], [smtp |-> TRUE, livemode |-> FALSE]}
    /\ passages = [service |-> [s \in Services |-> NoPassage],
                   city |-> [c \in Cities |-> NoPassage]]
    /\ variants = {}
    /\ inflight = NoRequests
    /\ admins = {}
    /\ adminSeq = 0
    /\ tokens = {}
    /\ hits = NoHits
    /\ last = Answer("init", NULL, NULL, 0, TRUE, "")
    /\ mail = <<>>
    /\ audit = <<>>

(* ------------------------- city / cutoff check ------------------------ *)

\* checkServiceCity.get(city): the row of an enabled city, if any.
checkServiceCity(city) == city \in DOMAIN cities /\ cities[city].enabled

\* The comparison turned around.
BeyondCutoff_Reversed(city, d) ==
    /\ cities[city].cutoff_date # NULL
    /\ d # NoDate
    /\ d < cities[city].cutoff_date

\* cutoff_date && preferredDate && new Date(preferredDate) > new Date(cutoff_date);
\* both strings are calendar dates, compared as day numbers.
BeyondCutoff(city, d) ==
    /\ cities[city].cutoff_date # NULL
    /\ d # NoDate
    /\ d > cities[city].cutoff_date

(* ----------------- POST /api/stripe/create-checkout-session ----------- *)

\* bookingData given: the data travels in the session metadata and the
\* booking is created after payment.
CreateCheckoutSessionData(city, email, svc, d, t) ==
    /\ DataSessionIds \ DOMAIN sessions # {}
    /\ IF checkServiceCity(city) /\ BeyondCutoff(city, d)
       THEN /\ last' = CutoffAnswer("checkout", city)
            /\ UNCHANGED sessions
       ELSE LET sid == Min(DataSessionIds \ DOMAIN sessions) IN
            /\ sessions' = (sid :> [bookingId |-> NULL, email |-> email, service |-> svc,
                                    date |-> d, time |-> t]) @@ sessions
            /\ last' = Answer("checkout", sid, NULL, 200, TRUE, "")
    /\ mail' = <<>>
    /\ audit' = <<>>
    /\ UNCHANGED <<bookings, nextId, conf>>

\* id given: the session references an existing booking, whose payment
\* columns are reset to the new session.
CreateCheckoutSessionId(id) ==
    /\ IdSessionIds \ DOMAIN sessions # {}
    /\ IF getBookingById(bookings, id) = {}
       THEN /\ last' = Answer("checkout", NULL, id, 404, FALSE, "not_found")
            /\ UNCHANGED <<sessions, bookings>>
       ELSE LET sid == Min(IdSessionIds \ DOMAIN sessions) IN
            /\ sessions' = (sid :> [bookingId |-> id, email |-> NULL, service |-> "",
                                    date |-> NoDate, time |-> ""]) @@ sessions
            /\ bookings' = updateBookingPayment(bookings, NULL, sid, "unpaid", id)
            /\ last' = Answer("checkout", sid, id, 200, TRUE, "")
    /\ mail' = <<>>
    /\ audit' = <<>>
    /\ UNCHANGED <<nextId, conf>>

(* ------------------ create-after-payment (both handlers) -------------- *)

\* Conflict check, insert, status and payment update for the metadata m of
\* session sid, once the capacity check has passed.
InsertAfterCheck(sid, m) ==
    IF m.time # "" /\ checkBookingConflict(bookings, m.date, m.time) # {}
    THEN [outcome |-> "conflict", rows |-> bookings, id |-> NULL]
    ELSE LET ins == insertBooking(bookings, nextId, PaymentBindCount, m.email, m.service,
                                  m.date, IF m.time = "" THEN DefaultTime ELSE m.time,
                                  sid, "paid")
         IN IF ins.err # ""
            THEN [outcome |-> "dberr", rows |-> bookings, id |-> NULL]
            ELSE [outcome |-> "created",
                  rows |-> updateBookingPayment(
                              updateBookingStatus(ins.rows, "pending", nextId),
                              PaymentIntent(sid), sid, "paid", nextId),
                  id |-> nextId]

\* currentCount >= maxBookingsPerDay
DateFull(m) == currentCount(bookings, m.date, m.service) >= maxBookingsPerDay(m.service)

\* Capacity check, then InsertAfterCheck.
CreateAfterPayment(sid, m) ==
    IF DateFull(m)
    THEN [outcome |-> "full", rows |-> bookings, id |-> NULL]
    ELSE InsertAfterCheck(sid, m)

(* ----------------------- POST /api/stripe/webhook --------------------- *)

\* A processing failure the handler caught surfaces as an error status.
WebhookAnswer_Throws(sid, bid, err) ==
    Answer("webhook", sid, bid, IF err = "" THEN 200 ELSE 500, err = "", err)

\* res.json({ received: true, ... }): every answer of the handler to a signed
\* event, with the error it recorded ("" for none).
WebhookAnswer(sid, bid, err) ==
    Answer("webhook", sid, bid, 200, TRUE, err)

\* checkout.session.completed for session sid, correctly signed.
Webhook(sid) ==
    /\ sid \in DOMAIN sessions
    /\ LET m == sessions[sid] IN
       IF TestIgnored
       THEN /\ last' = WebhookAnswer(sid, NULL, "test_mode_disabled")
            /\ mail' = <<>>
            /\ audit' = <<>>
            /\ UNCHANGED <<bookings, nextId>>
       ELSE IF m.bookingId # NULL
       THEN \* existing booking
            LET found == getBookingById(bookings, m.bookingId) IN
            IF found = {}
            THEN /\ last' = WebhookAnswer(sid, m.bookingId, "not_found")
                 /\ mail' = <<>>
                 /\ audit' = <<>>
                 /\ UNCHANGED <<bookings, nextId>>
            ELSE /\ bookings' = updateBookingStatus(
                                   updateBookingPayment(bookings, PaymentIntent(sid), sid,
                                                        "paid", m.bookingId),
                                   "pending", m.bookingId)
                 /\ mail' = IF env.smtp THEN <<ConfirmationMail(CHOOSE b \in found : TRUE)>>
                                    ELSE <<>>
                 /\ audit' = <<>>
                 /\ last' = WebhookAnswer(sid, m.bookingId, "")
                 /\ UNCHANGED nextId
       ELSE IF m.date # NoDate
       THEN \* booking created after payment
            /\ LET r == CreateAfterPayment(sid, m) IN
               /\ r.outcome = "created" => nextId <= MaxBookings
               /\ bookings' = r.rows
               /\ nextId' = IF r.outcome = "created" THEN nextId + 1 ELSE nextId
               /\ last' = WebhookAnswer(sid, r.id,
                                        IF r.outcome = "created" THEN "" ELSE r.outcome)
               /\ mail' = CASE r.outcome = "created" /\ env.smtp ->
                                  <<ConfirmationMail(CHOOSE b \in r.rows : b.id = r.id)>>
                            [] r.outcome = "full" /\ env.smtp -> <<DateFullMail(m.email)>>
                            [] OTHER -> <<>>
               /\ audit' = IF r.outcome = "created"
                           THEN <<[action |-> "STATUS_CHANGE", entityId |-> r.id,
                                   old |-> "", new |-> "paid"]>>
                           ELSE <<>>
       ELSE /\ last' = WebhookAnswer(sid, NULL, "incomplete")
            /\ mail' = <<>>
            /\ audit' = <<>>
            /\ UNCHANGED <<bookings, nextId>>
    /\ UNCHANGED <<sessions, conf>>

(* -------------------- POST /api/stripe/verify-payment ----------------- *)

\* The tail of verify-payment: validate the booking b unless already paid.
VerifyValidate(sid, rows, b) ==
    IF b.payment_status # "paid"
    THEN /\ bookings' =
              LET paidRows == updateBookingPayment(rows, PaymentIntent(sid), sid, "paid", b.id)
              IN IF b.status = "awaiting_payment"
                 THEN updateBookingStatus(paidRows, "pending", b.id)
                 ELSE paidRows
         /\ mail' = IF env.smtp THEN <<ConfirmationMail(b)>> ELSE <<>>
         /\ last' = Answer("verify", sid, b.id, 200, TRUE, "")
    ELSE /\ bookings' = rows
         /\ mail' = <<>>
         /\ last' = Answer("verify", sid, b.id, 200, TRUE, "already")

VerifyPayment(sid, isPaid) ==
    /\ sid \in DOMAIN sessions
    /\ audit' = <<>>
    /\ LET m == sessions[sid] IN
       IF TestIgnored
       THEN /\ last' = Answer("verify", sid, NULL, 200, FALSE, "test_mode_disabled")
            /\ mail' = <<>>
            /\ UNCHANGED <<bookings, nextId>>
       ELSE IF ~isPaid
       THEN /\ last' = Answer("verify", sid, NULL, 200, FALSE, "not_paid")
            /\ mail' = <<>>
            /\ UNCHANGED <<bookings, nextId>>
       ELSE IF m.bookingId # NULL
       THEN LET found == getBookingById(bookings, m.bookingId) IN
            IF found = {}
            THEN /\ last' = Answer("verify", sid, m.bookingId, 404, FALSE, "not_found")
                 /\ mail' = <<>>
                 /\ UNCHANGED <<bookings, nextId>>
            ELSE /\ VerifyValidate(sid, bookings, CHOOSE b \in found : TRUE)
                 /\ UNCHANGED nextId
       ELSE IF m.date # NoDate
       THEN /\ LET r == CreateAfterPayment(sid, m) IN
               IF r.outcome = "created"
               THEN /\ nextId <= MaxBookings
                    /\ VerifyValidate(sid, r.rows, CHOOSE b \in r.rows : b.id = r.id)
                    /\ nextId' = nextId + 1
               ELSE /\ last' = Answer("verify", sid, NULL,
                                      IF r.outcome = "dberr" THEN 500 ELSE 200,
                                      FALSE, r.outcome)
                    /\ mail' = <<>>
                    /\ UNCHANGED <<bookings, nextId>>
       ELSE /\ last' = Answer("verify", sid, NULL, 400, FALSE, "incomplete")
            /\ mail' = <<>>
            /\ UNCHANGED <<bookings, nextId>>
    /\ UNCHANGED <<sessions, conf>>

(* --------------------------- POST /api/booking ------------------------ *)

\* name, email, phone and serviceType are given; preferredDate and
\* preferredTime may be missing.
BookingRequest(city, email, svc, d, t) ==
    /\ mail' = <<>>
    /\ UNCHANGED <<sessions, conf>>
    /\ IF ~checkServiceCity(city)
       THEN /\ last' = Answer("booking", NULL, NULL, 400, FALSE, "city")
            /\ audit' = <<>>
            /\ UNCHANGED <<bookings, nextId>>
       ELSE IF BeyondCutoff(city, d)
       THEN /\ last' = CutoffAnswer("booking", city)
            /\ audit' = <<>>
            /\ UNCHANGED <<bookings, nextId>>
       ELSE IF d = NoDate \/ (config.time_selection_enabled /\ t = "")
       THEN /\ last' = Answer("booking", NULL, NULL, 400, FALSE, "missing")
            /\ audit' = <<>>
            /\ UNCHANGED <<bookings, nextId>>
       ELSE IF currentCount(bookings, d, svc) >= maxBookingsPerDay(svc)
       THEN /\ last' = Answer("booking", NULL, NULL, 409, FALSE, "full")
            /\ audit' = <<>>
            /\ UNCHANGED <<bookings, nextId>>
       ELSE IF t # "" /\ checkBookingConflict(bookings, d, t) # {}
       THEN /\ last' = Answer("booking", NULL, NULL, 409, FALSE, "conflict")
            /\ audit' = <<>>
            /\ UNCHANGED <<bookings, nextId>>
       ELSE LET ins == insertBooking(bookings, nextId, BookingRequestBindCount, email, svc,
                                     d, IF t = "" THEN DefaultTime ELSE t, NULL, "unpaid")
            IN IF ins.err = "SQLITE_CONSTRAINT_UNIQUE"
               THEN /\ last' = Answer("booking", NULL, NULL, 409, FALSE, "conflict")
                    /\ audit' = <<>>
                    /\ UNCHANGED <<bookings, nextId>>
               ELSE IF ins.err # ""
               THEN /\ last' = Answer("booking", NULL, NULL, 500, FALSE, "dberr")
                    /\ audit' = <<>>
                    /\ UNCHANGED <<bookings, nextId>>
               ELSE /\ nextId <= MaxBookings
                    /\ bookings' = updateBookingStatus(ins.rows, "awaiting_payment", nextId)
                    /\ nextId' = nextId + 1
                    /\ audit' = <<[action |-> "CREATE", entityId |-> nextId,
                                   old |-> "", new |-> ""]>>
                    /\ last' = Answer("booking", NULL, nextId, 200, TRUE, "")

(* ------------------ PUT /api/admin/bookings/:id/status ---------------- *)

AdminUpdateStatus(id, st) ==
    /\ mail' = <<>>
    /\ UNCHANGED <<sessions, nextId, conf>>
    /\ IF st \notin validStatuses
       THEN /\ last' = Answer("admin_status", NULL, id, 400, FALSE, "invalid_status")
            /\ audit' = <<>>
            /\ UNCHANGED bookings
       ELSE LET old == getBookingById(bookings, id) IN
            /\ bookings' = updateBookingStatus(bookings, st, id)
            /\ audit' = <<[action |-> "STATUS_CHANGE", entityId |-> id,
                           old |-> IF old = {} THEN "" ELSE (CHOOSE b \in old : TRUE).status,
                           new |-> st]>>
            /\ last' = Answer("admin_status", NULL, id, 200, TRUE, "")

(* --------------------- DELETE /api/admin/rgpd/delete ------------------ *)

RgpdDelete(email) ==
    /\ bookings' = {b \in bookings : b.email # email}
    /\ audit' = <<[action |-> "DELETE", entityId |-> email, old |-> "", new |-> ""]>>
    /\ mail' = <<>>
    /\ last' = Answer("rgpd_delete", NULL, NULL, 200, TRUE, "")
    /\ UNCHANGED <<sessions, nextId, conf>>

\* The row ids (:id of the admin routes) of the services and the cities.
ServiceRowId == [std |-> 1, pro |-> 2]
CityRowId == [lyon |-> 1, paris |-> 2, lille |-> 3, nice |-> 4]

Without(f, x) == [y \in DOMAIN f \ {x} |-> f[y]]

\* The bookings of the service deleted with it, as its variants are.
DeleteService_CascadesToBookings(s) ==
    /\ mail' = <<>>
    /\ UNCHANGED <<nextId, sessions, config, cities, env, inflight, accounts, hits>>
    /\ IF s \notin DOMAIN services
       THEN /\ last' = Answer("delete_service", NULL, ServiceRowId[s], 404, FALSE, "not_found")
            /\ audit' = <<>>
            /\ UNCHANGED <<bookings, services, passages, variants>>
       ELSE /\ services' = Without(services, s)
            /\ passages' = [passages EXCEPT !.service = Without(passages.service, s)]
            /\ variants' = {v \in variants : v.service # s}
            /\ bookings' = {b \in bookings : b.service_type # s}
            /\ audit' = <<[action |-> "DELETE", entityId |-> ServiceRowId[s],
                           old |-> s, new |-> ""]>>
            /\ last' = Answer("delete_service", NULL, ServiceRowId[s], 200, TRUE, "")

\* DELETE /api/admin/services/:id.  The variants of the service go with it
\* (ON DELETE CASCADE); bookings name their service by service_type, a text
\* column without a foreign key.
DeleteService(s) ==
    /\ mail' = <<>>
    /\ UNCHANGED <<bookings, nextId, sessions, config, cities, env, inflight, accounts, hits>>
    /\ IF s \notin DOMAIN services
       THEN /\ last' = Answer("delete_service", NULL, ServiceRowId[s], 404, FALSE, "not_found")
            /\ audit' = <<>>
            /\ UNCHANGED <<services, passages, variants>>
       ELSE /\ services' = Without(services, s)
            /\ passages' = [passages EXCEPT !.service = Without(passages.service, s)]
            /\ variants' = {v \in variants : v.service # s}
            /\ audit' = <<[action |-> "DELETE", entityId |-> ServiceRowId[s],
                           old |-> s, new |-> ""]>>
            /\ last' = Answer("delete_service", NULL, ServiceRowId[s], 200, TRUE, "")

\* DELETE /api/admin/cities/:id: answers ok whether or not the row existed.
DeleteServiceCity(c) ==
    /\ mail' = <<>>
    /\ UNCHANGED <<bookings, nextId, sessions, config, services, env, variants, inflight, accounts, hits>>
    /\ cities' = Without(cities, c)
    /\ passages' = [passages EXCEPT !.city = Without(passages.city, c)]
    /\ audit' = IF c \in DOMAIN cities
                THEN <<[action |-> "DELETE", entityId |-> CityRowId[c], old |-> c, new |-> ""]>>
                ELSE <<>>
    /\ last' = Answer("delete_city", NULL, CityRowId[c], 200, TRUE, "")

\* DELETE /api/admin/services/:serviceId/variants/:variantId.
DeleteVariant(id) ==
    /\ mail' = <<>>
    /\ UNCHANGED <<bookings, nextId, sessions, config, services, cities, env, passages, inflight, accounts, hits>>
    /\ IF \A v \in variants : v.id # id
       THEN /\ last' = Answer("delete_variant", NULL, id, 404, FALSE, "not_found")
            /\ audit' = <<>>
            /\ UNCHANGED variants
       ELSE /\ variants' = {v \in variants : v.id # id}
            /\ audit' = <<[action |-> "DELETE", entityId |-> id, old |-> "variant", new |-> ""]>>
            /\ last' = Answer("delete_variant", NULL, id, 200, TRUE, "")

(* ------------------------------ calendar ------------------------------ *)

\* A calendar date is its day number, day 1 being 1 January of EpochYear, a
\* Monday (getDay() = 1); months are numbered 0..11 as in JavaScript.
EpochYear == 2024
EpochWeekday == 1
DaysPerWeek == 7
LastMonth == 11

Years == EpochYear..(EpochYear + NumYears - 1)
Months == 0..LastMonth
Weekdays == 0..(DaysPerWeek - 1)
WeekNumbers == 0..5

IsLeapYear(y) == (y % 4 = 0 /\ y % 100 # 0) \/ y % 400 = 0

DaysInMonth(y, m) ==
    CASE m \in {3, 5, 8, 10} -> 30
      [] m = 1 -> IF IsLeapYear(y) THEN 29 ELSE 28
      [] OTHER -> 31

RECURSIVE DaysBeforeMonth(_, _)
DaysBeforeMonth(y, m) ==
    IF m = 0 THEN 0 ELSE DaysBeforeMonth(y, m - 1) + DaysInMonth(y, m - 1)

RECURSIVE DaysBeforeYear(_)
DaysBeforeYear(y) ==
    IF y <= EpochYear THEN 0
    ELSE DaysBeforeYear(y - 1) + DaysBeforeMonth(y - 1, LastMonth) + DaysInMonth(y - 1, LastMonth)

\* The years the calendar reaches: those of the bound and the two after, for
\* the dates a loop steps to past the end of a year.
CalendarYears == EpochYear..(EpochYear + NumYears + 1)

\* Days elapsed before the first of each month.
MonthStart ==
    [y \in CalendarYears |-> [m \in Months |-> DaysBeforeYear(y) + DaysBeforeMonth(y, m)]]

\* new Date(year, month, day): a month past December and a day outside the
\* month roll over into the following months.
RECURSIVE NewDate(_, _, _)
NewDate(y, m, d) ==
    IF m > LastMonth THEN NewDate(y + 1, m - (LastMonth + 1), d)
    ELSE MonthStart[y][m] + d

\* Year, month and day of the month of every day of the calendar.
DayTable ==
    [n \in 1..(MonthStart[EpochYear + NumYears + 1][0]) |->
        LET y == CHOOSE yy \in CalendarYears :
                    MonthStart[yy][0] < n /\ n <= MonthStart[yy][LastMonth] + DaysInMonth(yy, LastMonth)
            m == CHOOSE mm \in Months :
                    MonthStart[y][mm] < n /\ n <= MonthStart[y][mm] + DaysInMonth(y, mm)
        IN [year |-> y, month |-> m, date |-> n - MonthStart[y][m]]]

getFullYear(n) == DayTable[n].year

getMonth(n) == DayTable[n].month

getDate(n) == DayTable[n].date

getDay(n) == (n - 1 + EpochWeekday) % DaysPerWeek

\* while (date.getDay() !== weekday) date.setDate(date.getDate() + 1)
RECURSIVE AdvanceToWeekday(_, _)
AdvanceToWeekday(date, weekday) ==
    IF getDay(date) = weekday THEN date ELSE AdvanceToWeekday(date + 1, weekday)

\* while (date.getDay() !== weekday) date.setDate(date.getDate() - 1)
RECURSIVE RecedeToWeekday(_, _)
RecedeToWeekday(date, weekday) ==
    IF getDay(date) = weekday THEN date ELSE RecedeToWeekday(date - 1, weekday)

\* while (date.getMonth() === month) { dates.push(date); date += 7 days }
RECURSIVE EveryWeek(_, _, _)
EveryWeek(date, month, dates) ==
    IF getMonth(date) # month THEN dates
    ELSE EveryWeek(date + DaysPerWeek, month, Append(dates, date))

\* Week 5 read as the fifth occurrence, like weeks 1 to 4.
getNthWeekdayOfMonth_FifthOccurrence(year, month, weekNumber, weekday) ==
    IF weekNumber = 0
    THEN EveryWeek(AdvanceToWeekday(NewDate(year, month, 1), weekday), month, <<>>)
    ELSE LET date == AdvanceToWeekday(NewDate(year, month, 1), weekday)
                        + (weekNumber - 1) * DaysPerWeek
         IN IF getMonth(date) # month THEN <<>> ELSE <<date>>

getNthWeekdayOfMonth(year, month, weekNumber, weekday) ==
    IF weekNumber = 0
    THEN EveryWeek(AdvanceToWeekday(NewDate(year, month, 1), weekday), month, <<>>)
    ELSE IF weekNumber = 5
    THEN <<RecedeToWeekday(NewDate(year, month + 1, 0), weekday)>>
    ELSE LET date == AdvanceToWeekday(NewDate(year, month, 1), weekday)
                        + (weekNumber - 1) * DaysPerWeek
         IN IF getMonth(date) # month THEN <<>> ELSE <<date>>

\* The function applied to one input, which `last` holds.
ApplyGetNthWeekdayOfMonth ==
    /\ last.op = "input"
    /\ last' = [op |-> "getNthWeekdayOfMonth",
                year |-> last.year, month |-> last.month,
                weekNumber |-> last.weekNumber, weekday |-> last.weekday,
                dates |-> getNthWeekdayOfMonth(last.year, last.month,
                                               last.weekNumber, last.weekday)]
    /\ UNCHANGED <<bookings, nextId, sessions, conf, mail, audit>>

(* ---------------- GET /api/bookings/available-dates ------------------- *)

\* An instant is counted in half days of local time: local midnight of day n
\* is n * TicksPerDay, and an instant later in that day is one more.
TicksPerDay == 2
Midnight(n) == n * TicksPerDay
LocalDay(i) == i \div TicksPerDay

\* new Date("YYYY-MM-DD") is midnight UTC of that day: local midnight when the
\* process runs on UTC (env.tz = 0), later in the same local day east of UTC
\* (1), late in the previous local day west of UTC (-1).
ParseDate(d) == Midnight(d) + env.tz

\* `${y}-${m}-${day}` of a date's local year, month and day.
dateStr(date) == NewDate(getFullYear(date), getMonth(date), getDate(date))

Passage(w1, d1, w2, d2) ==
    [passage1_week |-> w1, passage1_day |-> d1, passage2_week |-> w2, passage2_day |-> d2]

\* passageConfig and source: the service's passages when it has a passage
\* week set (hasPassage1 || hasPassage2), else those of the enabled city, else
\* none (passageConfig null, source "").
passageConfig(city, svc) ==
    IF /\ svc # "" /\ svc \in DOMAIN services
       /\ (\/ passages.service[svc].passage1_week # NULL
           \/ passages.service[svc].passage2_week # NULL)
    THEN [source |-> "service", config |-> passages.service[svc]]
    ELSE IF city # "" /\ checkServiceCity(city)
    THEN [source |-> "city", config |-> passages.city[city]]
    ELSE [source |-> "", config |-> NoPassage]

\* The dates getNthWeekdayOfMonth gives for the two passages of cfg in one month.
passageDates(cfg, year, month) ==
    LET dates1 == IF cfg.passage1_week # NULL /\ cfg.passage1_day # NULL
                  THEN getNthWeekdayOfMonth(year, month, cfg.passage1_week, cfg.passage1_day)
                  ELSE <<>>
        dates2 == IF cfg.passage2_week # NULL /\ cfg.passage2_day # NULL
                  THEN getNthWeekdayOfMonth(year, month, cfg.passage2_week, cfg.passage2_day)
                  ELSE <<>>
    IN {dates1[i] : i \in DOMAIN dates1} \cup {dates2[i] : i \in DOMAIN dates2}

\* while (current <= end): the passages of current's month that lie between
\* start and end are added, then current.setMonth(current.getMonth() + 1) -
\* which keeps the day of the month and rolls over when the next month is
\* shorter - and current.setDate(1).
RECURSIVE allowedDatesLoop(_, _, _, _, _)
allowedDatesLoop(current, start, end, cfg, allowed) ==
    IF current > end THEN allowed
    ELSE LET today == LocalDay(current)
             year == getFullYear(today)
             month == getMonth(today)
             inRange == {date \in passageDates(cfg, year, month) :
                            Midnight(date) >= start /\ Midnight(date) <= end}
             moved == NewDate(year, month + 1, getDate(today))
             first == NewDate(getFullYear(moved), getMonth(moved), 1)
         IN allowedDatesLoop(Midnight(first) + (current % TicksPerDay), start, end, cfg,
                             allowed \cup {dateStr(date) : date \in inRange})

\* The (year, month) of current at each pass of the same loop, in order.
RECURSIVE monthsProcessed(_, _, _)
monthsProcessed(current, end, months) ==
    IF current > end THEN months
    ELSE LET today == LocalDay(current)
             moved == NewDate(getFullYear(today), getMonth(today) + 1, getDate(today))
             first == NewDate(getFullYear(moved), getMonth(moved), 1)
         IN monthsProcessed(Midnight(first) + (current % TicksPerDay), end,
                            Append(months, <<getFullYear(today), getMonth(today)>>))

\* for (const date of dates) if (date >= start && date <= end)
\*    if (!allowedDates.includes(dateStr)) allowedDates.push(dateStr)
RECURSIVE pushAllowed(_, _, _, _)
pushAllowed(allowed, dates, start, end) ==
    IF dates = <<>> THEN allowed
    ELSE LET date == Head(dates)
             str == dateStr(date)
             keep == /\ Midnight(date) >= start /\ Midnight(date) <= end
                     /\ \A i \in DOMAIN allowed : allowed[i] # str
         IN pushAllowed(IF keep THEN Append(allowed, str) ELSE allowed,
                        Tail(dates), start, end)

\* The allowedDates array after the passes over months: in each month the
\* dates of passage 1, then those of passage 2.
RECURSIVE allowedDatesArray(_, _, _, _, _)
allowedDatesArray(months, start, end, cfg, allowed) ==
    IF months = <<>> THEN allowed
    ELSE LET year == Head(months)[1]
             month == Head(months)[2]
             dates1 == IF cfg.passage1_week # NULL /\ cfg.passage1_day # NULL
                       THEN getNthWeekdayOfMonth(year, month, cfg.passage1_week,
                                                 cfg.passage1_day)
                       ELSE <<>>
             dates2 == IF cfg.passage2_week # NULL /\ cfg.passage2_day # NULL
                       THEN getNthWeekdayOfMonth(year, month, cfg.passage2_week,
                                                 cfg.passage2_day)
                       ELSE <<>>
         IN allowedDatesArray(Tail(months), start, end, cfg,
                              pushAllowed(pushAllowed(allowed, dates1, start, end),
                                          dates2, start, end))

\* allowedDates as computed for the resolved configuration pc.
allowedDatesFor(pc, startDate, endDate) ==
    IF pc.source = "" THEN {}
    ELSE allowedDatesLoop(ParseDate(startDate), ParseDate(startDate), ParseDate(endDate),
                          pc.config, {})

\* city and svc are "" when the query does not give them.
AvailableDates(city, svc, startDate, endDate) ==
    /\ IF startDate = NoDate \/ endDate = NoDate
       THEN last' = [op |-> "available_dates", code |-> 400, ok |-> FALSE,
                     city |-> city, serviceType |-> svc,
                     startDate |-> startDate, endDate |-> endDate,
                     fullDates |-> {}, allowedDates |-> [null |-> TRUE, dates |-> {}],
                     months |-> <<>>, array |-> <<>>]
       ELSE LET pc == passageConfig(city, svc)
                allowedDates == allowedDatesFor(pc, startDate, endDate)
                months == IF pc.source = "" THEN <<>>
                          ELSE monthsProcessed(ParseDate(startDate), ParseDate(endDate), <<>>)
            IN last' = [op |-> "available_dates", code |-> 200, ok |-> TRUE,
                        \* the months the loop passed over and the array it built
                        months |-> months,
                        array |-> allowedDatesArray(months, ParseDate(startDate),
                                                    ParseDate(endDate), pc.config, <<>>),
                        city |-> city, serviceType |-> svc,
                        startDate |-> startDate, endDate |-> endDate,
                        fullDates |-> fullDates(bookings, svc, startDate, endDate),
                        \* allowedDates.length > 0 ? allowedDates : null
                        allowedDates |-> IF allowedDates # {}
                                         THEN [null |-> FALSE, dates |-> allowedDates]
                                         ELSE [null |-> TRUE, dates |-> {}]]
    /\ mail' = <<>>
    /\ audit' = <<>>
    /\ UNCHANGED <<bookings, nextId, sessions, conf>>

(* --------------------- admin: service cities -------------------------- *)

\* value || null of JavaScript: null for undefined, null, 0 and "".
OrNull(value) == IF value = NULL \/ value = 0 THEN NULL ELSE value

CityAnswer(op, city, given, code) ==
    [op |-> op, city |-> city, given |-> given, code |-> code, ok |-> code = 200]

\* POST /api/admin/cities with the passages `given` (Passage of the body's
\* passage1Week, passage1Day, passage2Week, passage2Day; NULL: left out).
\* The model names a row by its city: city_name is UNIQUE.
AddServiceCity(c, given, enabled) ==
    /\ mail' = <<>>
    /\ UNCHANGED <<bookings, nextId, sessions, config, services, env, variants, inflight,
                   accounts, hits>>
    /\ IF c \in DOMAIN cities
       THEN /\ last' = CityAnswer("add_city", c, given, 409)
            /\ audit' = <<>>
            /\ UNCHANGED <<cities, passages>>
       ELSE /\ cities' = (c :> [enabled |-> enabled, cutoff_date |-> NULL]) @@ cities
            /\ passages' = [passages EXCEPT !.city =
                              (c :> Passage(OrNull(given.passage1_week),
                                            OrNull(given.passage1_day),
                                            OrNull(given.passage2_week),
                                            OrNull(given.passage2_day))) @@ passages.city]
            /\ audit' = <<[action |-> "CREATE", entityId |-> CityRowId[c],
                           old |-> "", new |-> c]>>
            /\ last' = CityAnswer("add_city", c, given, 200)

\* PUT /api/admin/cities/:id for the row of city c, the body keeping its name.
UpdateServiceCity(c, given, enabled) ==
    /\ mail' = <<>>
    /\ UNCHANGED <<bookings, nextId, sessions, config, services, env, variants, inflight,
                   accounts, hits>>
    /\ IF c \in DOMAIN cities
       THEN /\ cities' = [cities EXCEPT ![c] = [enabled |-> enabled, cutoff_date |-> NULL]]
            /\ passages' = [passages EXCEPT !.city[c] =
                              Passage(OrNull(given.passage1_week),
                                      OrNull(given.passage1_day),
                                      OrNull(given.passage2_week),
                                      OrNull(given.passage2_day))]
       ELSE UNCHANGED <<cities, passages>>
    /\ audit' = <<[action |-> "UPDATE", entityId |-> CityRowId[c], old |-> "", new |-> c]>>
    /\ last' = CityAnswer("update_city", c, given, 200)

(* ---------------------------- mail service ---------------------------- *)

\* rateLimit({ max }) of generalLimiter and of emailLimiter.
GeneralMax == 100
EmailMax == 50

Methods == {"GET", "POST", "OPTIONS"}
ApiPaths == {"/api/health", "/api/send", "/api/send-template", "/api/contact"}
Paths == {"/health"} \cup ApiPaths
\* app.use("/api/send" | "/api/send-template" | "/api/contact", emailLimiter)
EmailPaths == {"/api/send", "/api/send-template", "/api/contact"}
\* The Origin header: none, or one that is not in allowedOrigins.
Origins == {"", "foreign"}
\* The JSON body: passes the route's validators, fails them, does not parse.
Bodies == {"valid", "invalid", "malformed"}
\* X-API-Key (or Authorization: Bearer): none, a configured key, another key.
ApiKeyInputs == {"", "k1", "bad"}

\* req.path inside a middleware mounted at "/api/": the path below the mount.
MountedPath(path) ==
    CASE path = "/api/health" -> "/health"
      [] path = "/api/send" -> "/send"
      [] path = "/api/send-template" -> "/send-template"
      [] OTHER -> "/contact"

\* cors({ origin }): a request without Origin passes (so does one from an
\* allowed origin); any other origin is an error.
corsAllows(origin) == origin = ""

\* express-rate-limit: the request is counted, then refused when the count
\* is over max.  Counts over max + 1 refuse alike and are kept at max + 1.
Increment(count, max) == IF count > max THEN count ELSE count + 1
OverLimit(count, max) == count > max

\* A request without a key let through.
authenticateApiKey_MissingKeyAllowed(reqPath, key) ==
    IF reqPath = "/health" THEN 0
    ELSE IF env.apiKeys = {} THEN 0
    ELSE IF key = "" THEN 0
    ELSE IF key \notin env.apiKeys THEN 403
    ELSE 0

\* authenticateApiKey: the status it answers, 0 when it calls next().
authenticateApiKey(reqPath, key) ==
    IF reqPath = "/health" THEN 0
    ELSE IF env.apiKeys = {} THEN 0
    ELSE IF key = "" THEN 401
    ELSE IF key \notin env.apiKeys THEN 403
    ELSE 0

MailAnswer(method, path, origin, body, key, code, err) ==
    [op |-> "mail", method |-> method, path |-> path, origin |-> origin, body |-> body,
     key |-> key, code |-> code, ok |-> code \in {200, 204}, err |-> err]

\* The message each route hands to transporter.sendMail.
RouteMail(path) ==
    CASE path = "/api/send" -> [kind |-> "send", to |-> "to", replyTo |-> NULL]
      [] path = "/api/send-template" -> [kind |-> "template", to |-> "to", replyTo |-> NULL]
      [] OTHER -> [kind |-> "contact", to |-> Operator, replyTo |-> NULL]

\* One request to the mail service, through cors, express.json, the two rate
\* limiters and authenticateApiKey to its route, the 404 handler or the error
\* handler (which answers 500 whatever the error).  accepted: the SMTP server
\* takes the message.
MailRequest(method, path, origin, body, key, accepted) ==
    LET answer(code, err) == MailAnswer(method, path, origin, body, key, code, err)
        general == IF path \in ApiPaths THEN Increment(hits.general, GeneralMax)
                                        ELSE hits.general
        email == IF path \in EmailPaths THEN Increment(hits.email, EmailMax)
                                        ELSE hits.email
        auth == IF path \in ApiPaths THEN authenticateApiKey(MountedPath(path), key) ELSE 0
    IN
    /\ audit' = <<>>
    /\ UNCHANGED <<bookings, nextId, sessions, config, services, cities, env, passages,
                   variants, inflight, accounts>>
    /\ IF ~corsAllows(origin)
       THEN /\ last' = answer(500, "cors") /\ mail' = <<>> /\ UNCHANGED hits
       ELSE IF method = "OPTIONS"
       THEN /\ last' = answer(204, "preflight") /\ mail' = <<>> /\ UNCHANGED hits
       ELSE IF body = "malformed"
       THEN /\ last' = answer(500, "body") /\ mail' = <<>> /\ UNCHANGED hits
       ELSE IF path \in ApiPaths /\ OverLimit(general, GeneralMax)
       THEN /\ last' = answer(429, "rate_limit") /\ mail' = <<>>
            /\ hits' = [hits EXCEPT !.general = general]
       ELSE IF path \in EmailPaths /\ OverLimit(email, EmailMax)
       THEN /\ last' = answer(429, "email_limit") /\ mail' = <<>>
            /\ hits' = [general |-> general, email |-> email]
       ELSE /\ hits' = [general |-> general, email |-> email]
            /\ IF auth # 0
               THEN /\ last' = answer(auth, "api_key") /\ mail' = <<>>
               ELSE IF method = "GET" /\ path = "/health"
               THEN /\ last' = answer(200, "") /\ mail' = <<>>
               ELSE IF method = "POST" /\ path \in EmailPaths
               THEN IF body = "invalid"
                    THEN /\ last' = answer(400, "validation") /\ mail' = <<>>
                    ELSE IF ~env.smtp
                    THEN /\ last' = answer(500, "smtp_config") /\ mail' = <<>>
                    ELSE /\ mail' = <<RouteMail(path)>>
                         /\ last' = IF accepted THEN answer(200, "")
                                                ELSE answer(500, "send_failed")
               ELSE /\ last' = answer(404, "not_found") /\ mail' = <<>>

(* ----------------------- POST /api/send-template ----------------------- *)

\* A template or a subject is a sequence of pieces: a text without
\* placeholder, or one placeholder {{key}}.  data is the sequence of the
\* <<key, value>> pairs of the request's data object in the order of
\* Object.keys (the order the keys were written in).
DataKeys == {"name", "email"}
Placeholder(key) == IF key = "name" THEN "{{name}}" ELSE "{{email}}"
Pieces == {"Hi "} \cup {Placeholder(k) : k \in DataKeys}
\* A value is a text, a text that is itself a placeholder, or "$&", which
\* String.prototype.replace reads as "the matched substring".
DataValues == {"John", "{{email}}", "$&"}

\* text.replace(new RegExp(`{{${key}}}`, "g"), value)
replaceAll(text, key, value) ==
    [i \in DOMAIN text |->
        IF text[i] = Placeholder(key)
        THEN (IF value = "$&" THEN text[i] ELSE value)
        ELSE text[i]]

\* Object.keys(data).forEach(...): the keys replaced one after the other,
\* each in the text the keys before it have left.
RECURSIVE renderTemplate(_, _)
renderTemplate(text, data) ==
    IF data = <<>> THEN text
    ELSE renderTemplate(replaceAll(text, Head(data)[1], Head(data)[2]), Tail(data))

\* The subject of mailOptions: the request's subject as it is.
templateSubject(subject, data) == subject

\* The handler of POST /api/send-template, for a request that has passed the
\* middleware chain with a valid recipient.
SendTemplate(subject, template, data, accepted) ==
    LET answer(code, err) ==
           [op |-> "send_template", code |-> code, ok |-> code = 200, err |-> err,
            subject |-> subject, template |-> template, data |-> data]
    IN
    /\ audit' = <<>>
    /\ UNCHANGED <<bookings, nextId, sessions, conf>>
    /\ last.op = "init"
    /\ IF subject = <<>> \/ template = <<>>
       THEN /\ last' = answer(400, "validation") /\ mail' = <<>>
       ELSE IF ~env.smtp
       THEN /\ last' = answer(500, "smtp_config") /\ mail' = <<>>
       ELSE /\ mail' = <<[kind |-> "template", to |-> "to", replyTo |-> NULL,
                          subject |-> templateSubject(subject, data),
                          text |-> renderTemplate(template, data),
                          html |-> renderTemplate(template, data)]>>
            /\ last' = IF accepted THEN answer(200, "") ELSE answer(500, "send_failed")

(* ------------- payment confirmations, one await at a time ------------ *)

\* The handlers are async functions of one Node.js process: a handler runs
\* until it awaits a promise and other requests run meanwhile.  The webhook
\* awaits sendMail only; verify-payment awaits stripe.checkout.sessions
\* .retrieve, then sendMail.  The database calls (better-sqlite3) return
\* without awaiting.

\* The capacity check and the insert separated by an await, as with a
\* database driver that returns promises.
YieldsBeforeInsert_AsyncDatabase == TRUE

\* Whether a handler awaits between its capacity check and its insert.
YieldsBeforeInsert == FALSE

\* A rejected sendMail surfacing in the answer.
AfterMail_Surfaces(answer, accepted) ==
    IF accepted THEN answer
    ELSE [answer EXCEPT !.code = 500, !.ok = FALSE, !.err = "email"]

\* try { await transporter.sendMail(...) } catch (emailErr) { console.error }:
\* the answer the handler goes on to send.
AfterMail(answer, accepted) == answer

\* What a stretch of a handler between two awaits leaves: the table, the
\* sendMail call it awaits next (none: <<>>), the answer it sends or will
\* send, and whether it stopped between capacity check and insert.
Stretch(rows, nid, answer, call, log, yields) ==
    [rows |-> rows, nextId |-> nid, answer |-> answer, call |-> call, audit |-> log,
     yields |-> yields]

\* The webhook from the event to its first await; stage "checked": from the
\* await after the capacity check on.
WebhookStretch(sid, stage) ==
    LET m == sessions[sid]
        quiet(err) == Stretch(bookings, nextId, WebhookAnswer(sid, m.bookingId, err),
                              <<>>, <<>>, FALSE)
    IN
    IF TestIgnored THEN quiet("test_mode_disabled")
    ELSE IF m.bookingId # NULL
    THEN LET found == getBookingById(bookings, m.bookingId) IN
         IF found = {} THEN quiet("not_found")
         ELSE Stretch(updateBookingStatus(
                         updateBookingPayment(bookings, PaymentIntent(sid), sid, "paid",
                                              m.bookingId),
                         "pending", m.bookingId),
                      nextId, WebhookAnswer(sid, m.bookingId, ""),
                      IF env.smtp THEN <<ConfirmationMail(CHOOSE b \in found : TRUE)>>
                                  ELSE <<>>,
                      <<>>, FALSE)
    ELSE IF m.date = NoDate THEN quiet("incomplete")
    ELSE IF stage = "start" /\ DateFull(m)
    THEN Stretch(bookings, nextId, WebhookAnswer(sid, NULL, "full"),
                 IF env.smtp THEN <<DateFullMail(m.email)>> ELSE <<>>, <<>>, FALSE)
    ELSE IF stage = "start" /\ YieldsBeforeInsert
    THEN Stretch(bookings, nextId, WebhookAnswer(sid, NULL, ""), <<>>, <<>>, TRUE)
    ELSE LET r == InsertAfterCheck(sid, m) IN
         IF r.outcome # "created" THEN quiet(r.outcome)
         ELSE Stretch(r.rows, nextId + 1, WebhookAnswer(sid, r.id, ""),
                      IF env.smtp
                      THEN <<ConfirmationMail(CHOOSE b \in r.rows : b.id = r.id)>>
                      ELSE <<>>,
                      <<[action |-> "STATUS_CHANGE", entityId |-> r.id,
                         old |-> "", new |-> "paid"]>>,
                      FALSE)

\* The tail of verify-payment for booking b of the table rows.
VerifyValidateStretch(sid, rows, nid, b) ==
    IF b.payment_status # "paid"
    THEN LET paidRows == updateBookingPayment(rows, PaymentIntent(sid), sid, "paid", b.id)
         IN Stretch(IF b.status = "awaiting_payment"
                    THEN updateBookingStatus(paidRows, "pending", b.id)
                    ELSE paidRows,
                    nid, Answer("verify", sid, b.id, 200, TRUE, ""),
                    IF env.smtp THEN <<ConfirmationMail(b)>> ELSE <<>>, <<>>, FALSE)
    ELSE Stretch(rows, nid, Answer("verify", sid, b.id, 200, TRUE, "already"),
                 <<>>, <<>>, FALSE)

\* verify-payment from the retrieved session to its next await.
VerifyStretch(sid, isPaid, stage) ==
    LET m == sessions[sid]
        quiet(code, err) == Stretch(bookings, nextId,
                                    Answer("verify", sid, m.bookingId, code, FALSE, err),
                                    <<>>, <<>>, FALSE)
    IN
    IF TestIgnored THEN quiet(200, "test_mode_disabled")
    ELSE IF ~isPaid THEN quiet(200, "not_paid")
    ELSE IF m.bookingId # NULL
    THEN LET found == getBookingById(bookings, m.bookingId) IN
         IF found = {} THEN quiet(404, "not_found")
         ELSE VerifyValidateStretch(sid, bookings, nextId, CHOOSE b \in found : TRUE)
    ELSE IF m.date = NoDate THEN quiet(400, "incomplete")
    ELSE IF stage = "start" /\ DateFull(m) THEN quiet(200, "full")
    ELSE IF stage = "start" /\ YieldsBeforeInsert
    THEN Stretch(bookings, nextId, Answer("verify", sid, NULL, 200, TRUE, ""),
                 <<>>, <<>>, TRUE)
    ELSE LET r == InsertAfterCheck(sid, m) IN
         IF r.outcome # "created"
         THEN quiet(IF r.outcome = "dberr" THEN 500 ELSE 200, r.outcome)
         ELSE VerifyValidateStretch(sid, r.rows, nextId + 1,
                                    CHOOSE b \in r.rows : b.id = r.id)

\* Request r runs the stretch st and then awaits, or answers.
Run(r, kind, sid, st) ==
    /\ st.nextId <= MaxBookings + 1
    /\ bookings' = st.rows
    /\ nextId' = st.nextId
    /\ audit' = st.audit
    /\ mail' = st.call
    /\ IF st.yields
       THEN /\ inflight' = [inflight EXCEPT ![r] =
                               [Idle EXCEPT !.pc = "checked", !.kind = kind, !.sid = sid]]
            /\ UNCHANGED last
       ELSE IF st.call # <<>>
       THEN /\ inflight' = [inflight EXCEPT ![r] =
                               [Idle EXCEPT !.pc = "mail", !.kind = kind, !.sid = sid,
                                            !.answer = st.answer, !.sent = st.call[1].kind]]
            /\ UNCHANGED last
       ELSE /\ inflight' = [inflight EXCEPT ![r] = Idle]
            /\ last' = st.answer
    /\ UNCHANGED <<sessions, config, services, cities, env, passages, variants, accounts, hits>>

\* A confirmation for session sid arrives and runs to its first await.
Arrive(r, kind, sid) ==
    /\ inflight[r].pc = "idle"
    /\ sid \in DOMAIN sessions
    /\ IF kind = "webhook"
       THEN Run(r, kind, sid, WebhookStretch(sid, "start"))
       ELSE /\ inflight' = [inflight EXCEPT ![r] =
                               [Idle EXCEPT !.pc = "retrieve", !.kind = kind, !.sid = sid]]
            /\ mail' = <<>>
            /\ audit' = <<>>
            /\ UNCHANGED <<bookings, nextId, sessions, config, services, cities, env,
                           passages, variants, accounts, hits, last>>

\* The promise request r awaits settles: the session retrieved (paid or
\* not), the await after the capacity check, or sendMail (accepted or
\* rejected), after which the handler answers.
Resume(r, isPaid, accepted) ==
    LET q == inflight[r] IN
    /\ q.pc \in {"retrieve", "checked", "mail"}
    /\ IF q.pc = "retrieve"
       THEN Run(r, q.kind, q.sid, VerifyStretch(q.sid, isPaid, "start"))
       ELSE IF q.pc = "checked"
       THEN Run(r, q.kind, q.sid,
                IF q.kind = "webhook" THEN WebhookStretch(q.sid, "checked")
                                      ELSE VerifyStretch(q.sid, TRUE, "checked"))
       ELSE /\ last' = AfterMail(q.answer, accepted)
            /\ inflight' = [inflight EXCEPT ![r] =
                               [Idle EXCEPT !.sent = q.sent,
                                            !.transport = IF accepted THEN "accepted"
                                                                      ELSE "failed"]]
            /\ mail' = <<>>
            /\ audit' = <<>>
            /\ UNCHANGED <<bookings, nextId, sessions, config, services, cities, env,
                           passages, variants, accounts, hits>>

(* ------------------------- admin accounts ----------------------------- *)

\* What the admin-account routes leave alone.
shop == <<bookings, nextId, sessions, config, services, cities, env, passages, variants, hits>>

Usernames == {"root", "bob"}
validRoles == {"admin", "manager", "operator"}
\* role of the request body: absent, valid ones, and 'superadmin'.
RoleInputs == {"", "admin", "manager", "superadmin"}
\* newPassword.length < 6
MinPasswordLength == 6

\* jwt.verify(token, JWT_SECRET): the claims of a token the server signed.
Claims == [userId : 1..MaxAdmins, role : {"superadmin", "manager", "operator"}]

\* bcrypt.hash(password, 10), the salt left out.
bcryptHash(password) == "$2b$10$" \o password

\* SELECT COUNT(*) FROM admins WHERE role IN ('admin', 'superadmin')
countAdmins(rows) == Cardinality({a \in rows : a.role \in {"admin", "superadmin"}})

getAdminById(rows, id) == {a \in rows : a.id = id}

getAdminByUsername(rows, username) == {a \in rows : a.username = username}

\* INSERT INTO admins: username is UNIQUE, the id is the next of the sequence.
insertAdmin(rows, seq, username, hash, role, active) ==
    IF getAdminByUsername(rows, username) # {}
    THEN [err |-> "SQLITE_CONSTRAINT_UNIQUE", rows |-> rows, seq |-> seq]
    ELSE [err |-> "",
          rows |-> rows \cup {[id |-> seq + 1, username |-> username, password_hash |-> hash,
                               role |-> role, is_active |-> active]},
          seq |-> seq + 1]

updateAdmin(rows, username, role, active, id) ==
    {IF a.id = id THEN [a EXCEPT !.username = username, !.role = role, !.is_active = active]
                  ELSE a : a \in rows}

updateAdminPassword(rows, hash, id) ==
    {IF a.id = id THEN [a EXCEPT !.password_hash = hash] ELSE a : a \in rows}

\* DELETE FROM admins WHERE id = ?, and the tokens of the row with it
\* (FOREIGN KEY (admin_id) ... ON DELETE CASCADE).
deleteAdmin(rows, id) == {a \in rows : a.id # id}
cascadeTokens(rows, id) == {t \in rows : t.admin_id # id}

\* SELECT * FROM password_reset_tokens
\* WHERE token = ? AND used = 0 AND expires_at > datetime('now')
getPasswordResetToken(rows, token) ==
    {t \in rows : t.token = token /\ ~t.used /\ ~t.expired}

markTokenAsUsed(rows, token) ==
    {IF t.token = token THEN [t EXCEPT !.used = TRUE] ELSE t : t \in rows}

deleteExpiredTokens(rows) == {t \in rows : ~t.expired}

AdminAnswer(op, actor, id, code, err) ==
    [op |-> op, actor |-> actor, id |-> id, code |-> code, ok |-> code = 200, err |-> err]

\* The answer to PUT /api/admin/users/:id, with the role of the request body.
UpdateAnswer(id, role, code, err) ==
    [op |-> "update_user", actor |-> NULL, id |-> id, role |-> role, code |-> code,
     ok |-> code = 200, err |-> err]

\* The handler of request r answers: nothing of the database changes.
Refuse(r, answer) ==
    /\ last' = answer
    /\ audit' = <<>>
    /\ UNCHANGED <<inflight, accounts>>

\* The handler of request r awaits bcrypt.hash with the body arg in hand.
AwaitHash(r, kind, arg) ==
    /\ inflight' = [inflight EXCEPT ![r] = [Idle EXCEPT !.pc = "hash", !.kind = kind,
                                                        !.arg = arg]]
    /\ audit' = <<>>
    /\ UNCHANGED last

\* POST /api/admin/init, up to await bcrypt.hash.
AdminInit(r, username, password) ==
    /\ inflight[r].pc = "idle"
    /\ mail' = <<>>
    /\ UNCHANGED shop
    /\ IF username = "" \/ password = ""
       THEN Refuse(r, AdminAnswer("admin_init", NULL, NULL, 400, "missing"))
       ELSE IF countAdmins(admins) > 0
       THEN Refuse(r, AdminAnswer("admin_init", NULL, NULL, 403, "exists"))
       ELSE /\ AwaitHash(r, "admin_init",
                         [NoBody EXCEPT !.username = username, !.password = password])
            /\ UNCHANGED accounts

\* POST /api/admin/users (requireSuperAdmin), up to await bcrypt.hash.
CreateUser(r, actor, username, password, role) ==
    /\ inflight[r].pc = "idle"
    /\ mail' = <<>>
    /\ UNCHANGED shop
    /\ IF actor.role # "superadmin"
       THEN Refuse(r, AdminAnswer("create_user", NULL, NULL, 403, "role"))
       ELSE IF username = "" \/ password = ""
       THEN Refuse(r, AdminAnswer("create_user", NULL, NULL, 400, "missing"))
       ELSE IF role # "" /\ role \notin validRoles
       THEN Refuse(r, AdminAnswer("create_user", NULL, NULL, 400, "invalid_role"))
       ELSE IF getAdminByUsername(admins, username) # {}
       THEN Refuse(r, AdminAnswer("create_user", NULL, NULL, 400, "exists"))
       ELSE /\ AwaitHash(r, "create_user",
                         [NoBody EXCEPT !.username = username, !.password = password,
                                        !.role = IF role = "" THEN "operator" ELSE role])
            /\ UNCHANGED accounts

\* The last-administrator test of PUT /api/admin/users/:id left out.
LastAdminDemoted_Allowed(existingUser, role) == FALSE

\* (role admin or superadmin) && adminCount.count === 1
\*    && role !== 'admin' && role !== 'superadmin'
LastAdminDemoted(existingUser, role) ==
    /\ existingUser.role \in {"admin", "superadmin"}
    /\ countAdmins(admins) = 1
    /\ role \notin {"admin", "superadmin"}

\* PUT /api/admin/users/:id (requireAdmin: admin, manager, superadmin), up to
\* its answer or, when the body has a password, to await bcrypt.hash.
UpdateUser(r, actor, id, username, role, password) ==
    /\ inflight[r].pc = "idle"
    /\ mail' = <<>>
    /\ UNCHANGED shop
    /\ IF actor.role \notin {"admin", "manager", "superadmin"}
       THEN Refuse(r, UpdateAnswer(id, role, 403, "role"))
       ELSE IF getAdminById(admins, id) = {}
       THEN Refuse(r, UpdateAnswer(id, role, 404, "not_found"))
       ELSE LET existingUser == CHOOSE a \in getAdminById(admins, id) : TRUE
                newName == IF username = "" THEN existingUser.username ELSE username
                newRole == IF role = "" THEN existingUser.role ELSE role
                log == <<[action |-> "UPDATE", entityId |-> id,
                          old |-> existingUser.role, new |-> newRole]>>
            IN
            IF LastAdminDemoted(existingUser, role)
            THEN Refuse(r, UpdateAnswer(id, role, 400, "last_admin"))
            ELSE IF role # "" /\ role \notin validRoles
            THEN Refuse(r, UpdateAnswer(id, role, 400, "invalid_role"))
            ELSE IF /\ username # "" /\ username # existingUser.username
                    /\ getAdminByUsername(admins, username) # {}
            THEN Refuse(r, UpdateAnswer(id, role, 400, "taken"))
            ELSE /\ admins' = updateAdmin(admins, newName, newRole,
                                          existingUser.is_active, id)
                 /\ UNCHANGED <<adminSeq, tokens>>
                 /\ IF password # ""
                    THEN AwaitHash(r, "update_user",
                                   [NoBody EXCEPT !.id = id, !.password = password,
                                                  !.old = existingUser.role,
                                                  !.role = role])
                    ELSE /\ last' = UpdateAnswer(id, role, 200, "")
                         /\ audit' = log
                         /\ UNCHANGED inflight

\* parseInt(id) === currentUserId
IsOwnAccount(id, actor) == id = actor.userId

\* DELETE /api/admin/users/:id (requireAdmin).
DeleteUser(actor, id) ==
    /\ mail' = <<>>
    /\ UNCHANGED <<shop, inflight, adminSeq>>
    /\ IF actor.role \notin {"admin", "manager", "superadmin"}
       THEN /\ last' = AdminAnswer("delete_user", actor.userId, id, 403, "role")
            /\ audit' = <<>>
            /\ UNCHANGED <<admins, tokens>>
       ELSE IF getAdminById(admins, id) = {}
       THEN /\ last' = AdminAnswer("delete_user", actor.userId, id, 404, "not_found")
            /\ audit' = <<>>
            /\ UNCHANGED <<admins, tokens>>
       ELSE LET existingUser == CHOOSE a \in getAdminById(admins, id) : TRUE IN
            IF IsOwnAccount(id, actor)
            THEN /\ last' = AdminAnswer("delete_user", actor.userId, id, 400, "own_account")
                 /\ audit' = <<>>
                 /\ UNCHANGED <<admins, tokens>>
            ELSE IF existingUser.role \in {"admin", "superadmin"} /\ countAdmins(admins) = 1
            THEN /\ last' = AdminAnswer("delete_user", actor.userId, id, 400, "last_admin")
                 /\ audit' = <<>>
                 /\ UNCHANGED <<admins, tokens>>
            ELSE /\ admins' = deleteAdmin(admins, id)
                 /\ tokens' = cascadeTokens(tokens, id)
                 /\ audit' = <<[action |-> "DELETE", entityId |-> id,
                                old |-> existingUser.role, new |-> ""]>>
                 /\ last' = AdminAnswer("delete_user", actor.userId, id, 200, "")

\* POST /api/admin/forgot-password: the token is stored before the email is
\* sent; crypto.randomBytes gives a token that was never given before.
ForgotPassword(email, accepted) ==
    /\ mail' = <<>>
    /\ audit' = <<>>
    /\ UNCHANGED <<shop, inflight, admins, adminSeq>>
    /\ IF email = ""
       THEN /\ last' = AdminAnswer("forgot_password", NULL, NULL, 400, "missing")
            /\ UNCHANGED tokens
       ELSE IF getAdminByUsername(admins, email) = {}
       THEN /\ last' = AdminAnswer("forgot_password", NULL, NULL, 200, "")
            /\ UNCHANGED tokens
       ELSE LET user == CHOOSE a \in getAdminByUsername(admins, email) : TRUE
                fresh == (1..MaxTokens) \ {t.token : t \in tokens}
            IN /\ fresh # {}
               /\ tokens' = tokens \cup {[token |-> Min(fresh), admin_id |-> user.id,
                                           used |-> FALSE, expired |-> FALSE]}
               /\ last' = AdminAnswer("forgot_password", NULL, user.id,
                                      IF accepted THEN 200 ELSE 500,
                                      IF accepted THEN "" ELSE "email")

\* An hour passes after token was created: expires_at is in the past.
TokenExpires(token) ==
    /\ \E t \in tokens : t.token = token /\ ~t.expired
    /\ tokens' = {IF t.token = token THEN [t EXCEPT !.expired = TRUE] ELSE t : t \in tokens}
    /\ UNCHANGED <<shop, inflight, admins, adminSeq, last, mail, audit>>

\* POST /api/admin/reset-password, up to await bcrypt.hash.
ResetPassword(r, token, newPassword) ==
    /\ inflight[r].pc = "idle"
    /\ mail' = <<>>
    /\ UNCHANGED <<shop, admins, adminSeq>>
    /\ IF token = NULL \/ newPassword = ""
       THEN /\ last' = AdminAnswer("reset_password", NULL, NULL, 400, "missing")
            /\ audit' = <<>>
            /\ UNCHANGED <<inflight, tokens>>
       ELSE IF Len(newPassword) < MinPasswordLength
       THEN /\ last' = AdminAnswer("reset_password", NULL, NULL, 400, "short")
            /\ audit' = <<>>
            /\ UNCHANGED <<inflight, tokens>>
       ELSE /\ tokens' = deleteExpiredTokens(tokens)
            /\ LET found == getPasswordResetToken(tokens', token) IN
               IF found = {}
               THEN /\ last' = AdminAnswer("reset_password", NULL, NULL, 400, "invalid_token")
                    /\ audit' = <<>>
                    /\ UNCHANGED inflight
               ELSE AwaitHash(r, "reset_password",
                              [NoBody EXCEPT !.token = token, !.password = newPassword,
                                             !.id = (CHOOSE t \in found : TRUE).admin_id])

\* bcrypt.hash resolves for request r, whose handler runs to its answer.
HashResolves(r) ==
    LET q == inflight[r]
        a == q.arg
        hash == bcryptHash(a.password)
    IN
    /\ q.pc = "hash"
    /\ inflight' = [inflight EXCEPT ![r] = Idle]
    /\ mail' = <<>>
    /\ UNCHANGED shop
    /\ CASE q.kind = "admin_init" ->
             LET ins == insertAdmin(admins, adminSeq, a.username, hash, "superadmin", TRUE) IN
             /\ ins.seq <= MaxAdmins
             /\ admins' = ins.rows
             /\ adminSeq' = ins.seq
             /\ audit' = <<>>
             /\ last' = IF ins.err # ""
                        THEN AdminAnswer("admin_init", NULL, NULL, 500, ins.err)
                        ELSE AdminAnswer("admin_init", NULL, ins.seq, 200, "")
             /\ UNCHANGED tokens
         [] q.kind = "create_user" ->
             LET ins == insertAdmin(admins, adminSeq, a.username, hash, a.role, TRUE) IN
             /\ ins.seq <= MaxAdmins
             /\ admins' = ins.rows
             /\ adminSeq' = ins.seq
             /\ audit' = IF ins.err # "" THEN <<>>
                         ELSE <<[action |-> "CREATE", entityId |-> ins.seq,
                                 old |-> "", new |-> a.role]>>
             /\ last' = IF ins.err # ""
                        THEN AdminAnswer("create_user", NULL, NULL, 500, ins.err)
                        ELSE AdminAnswer("create_user", NULL, ins.seq, 200, "")
             /\ UNCHANGED tokens
         [] q.kind = "update_user" ->
             /\ admins' = updateAdminPassword(admins, hash, a.id)
             /\ audit' = <<[action |-> "UPDATE", entityId |-> a.id, old |-> a.old,
                            new |-> IF a.role = "" THEN a.old ELSE a.role]>>
             /\ last' = UpdateAnswer(a.id, a.role, 200, "")
             /\ UNCHANGED <<adminSeq, tokens>>
         [] q.kind = "reset_password" ->
             /\ admins' = updateAdminPassword(admins, hash, a.id)
             /\ tokens' = markTokenAsUsed(tokens, a.token)
             /\ audit' = <<>>
             /\ last' = AdminAnswer("reset_password", NULL, a.id, 200, "")
             /\ UNCHANGED adminSeq

(* ------------------------------ system -------------------------------- *)

Next ==
    \/ \E c \in Cities, e \in Emails, s \in Services, d \in DateInputs, t \in TimeInputs :
          CreateCheckoutSessionData(c, e, s, d, t)
    \/ \E id \in 1..MaxBookings : CreateCheckoutSessionId(id)
    \/ \E sid \in SessionIds : Webhook(sid)
    \/ \E sid \in SessionIds, isPaid \in BOOLEAN : VerifyPayment(sid, isPaid)
    \/ \E c \in Cities, e \in Emails, s \in Services, d \in DateInputs, t \in TimeInputs :
          BookingRequest(c, e, s, d, t)
    \/ \E id \in 1..MaxBookings, st \in StatusInputs : AdminUpdateStatus(id, st)
    \/ \E e \in Emails : RgpdDelete(e)

Spec == Init /\ [][Next]_vars

\* The availability query over a database drawn from the configurations
\* below: the limit and the passages of service "pro", the passages of city
\* "lyon", a bookings table, and the time zone of the process.  City "nice" is
\* disabled and has a passage every Tuesday.
ServicePassages ==
    {NoPassage, Passage(3, 3, NULL, NULL), Passage(NULL, NULL, 0, 1),
     Passage(2, NULL, NULL, NULL), Passage(0, 3, 3, 3)}
CityPassages == {NoPassage, Passage(1, 1, 5, 5)}
ServiceLimits == {0, 1}
TimeZones == {-1, 0, 1}

\* Bookings of 17 January (the third Wednesday) and 21 February of EpochYear.
BookingRows ==
    {[id |-> 1, email |-> 1, service_type |-> "pro",
      preferred_date |-> NewDate(EpochYear, 0, 17), preferred_time |-> "09:00",
      status |-> "pending", payment_status |-> "paid",
      stripe_session_id |-> 1, stripe_payment_intent_id |-> 1],
     [id |-> 2, email |-> 1, service_type |-> "std",
      preferred_date |-> NewDate(EpochYear, 0, 17), preferred_time |-> "10:00",
      status |-> "confirmed", payment_status |-> "paid",
      stripe_session_id |-> 2, stripe_payment_intent_id |-> 2],
     [id |-> 3, email |-> 1, service_type |-> "std",
      preferred_date |-> NewDate(EpochYear, 1, 21), preferred_time |-> "09:00",
      status |-> "cancelled", payment_status |-> "paid",
      stripe_session_id |-> 3, stripe_payment_intent_id |-> 3]}

\* startDate and endDate of the queries: most of January, its first week, the
\* third Wednesday alone, 31 January to 31 March, and none given.
QueryRanges ==
    {<<NewDate(EpochYear, 0, 2), NewDate(EpochYear, 0, 31)>>,
     <<NewDate(EpochYear, 0, 2), NewDate(EpochYear, 0, 8)>>,
     <<NewDate(EpochYear, 0, 17), NewDate(EpochYear, 0, 17)>>,
     <<NewDate(EpochYear, 0, 31), NewDate(EpochYear, 2, 31)>>,
     <<NoDate, NoDate>>}

AvailInit ==
    /\ bookings \in SUBSET BookingRows
    /\ nextId = Cardinality(BookingRows) + 1
    /\ sessions = [i \in {} |-> 0]
    /\ config = [max_bookings_per_day |-> 2,
                 time_selection_enabled |-> FALSE,
                 test_mode_enabled |-> FALSE]
    /\ \E limit \in ServiceLimits :
          services = [s \in Services |-> IF s = "pro" THEN limit ELSE NoLimit]
    /\ cities = [c \in Cities |-> [enabled |-> c # "nice", cutoff_date |-> NULL]]
    /\ \E tz \in TimeZones : env = [smtp |-> TRUE, livemode |-> TRUE, tz |-> tz]
    /\ \E sp \in ServicePassages, cp \in CityPassages :
          passages = [service |-> [s \in Services |-> IF s = "pro" THEN sp ELSE NoPassage],
                      city |-> [c \in Cities |->
                                  CASE c = "lyon" -> cp
                                    [] c = "nice" -> Passage(0, 2, NULL, NULL)
                                    [] OTHER -> NoPassage]]
    /\ variants = {}
    /\ inflight = NoRequests
    /\ admins = {}
    /\ adminSeq = 0
    /\ tokens = {}
    /\ hits = NoHits
    /\ last = Answer("init", NULL, NULL, 0, TRUE, "")
    /\ mail = <<>>
    /\ audit = <<>>

AvailNext ==
    \E city \in {"lyon", "nice", ""}, svc \in Services \cup {""}, r \in QueryRanges :
       AvailableDates(city, svc, r[1], r[2])

AvailSpec == AvailInit /\ [][AvailNext]_vars

\* getNthWeekdayOfMonth on its own: every (year, month, weekNumber, weekday)
\* of the bounds as an input, then the function applied to it.
CalendarInit ==
    /\ bookings = {}
    /\ nextId = 1
    /\ sessions = [i \in {} |-> 0]
    /\ config = [max_bookings_per_day |-> 2,
                 time_selection_enabled |-> FALSE,
                 test_mode_enabled |-> FALSE]
    /\ services = [s \in Services |-> NoLimit]
    /\ cities = [c \in Cities |-> [enabled |-> TRUE, cutoff_date |-> NULL]]
    /\ env = [smtp |-> TRUE, livemode |-> TRUE]
    /\ passages = [service |-> [s \in Services |-> NoPassage],
                   city |-> [c \in Cities |-> NoPassage]]
    /\ variants = {}
    /\ inflight = NoRequests
    /\ admins = {}
    /\ adminSeq = 0
    /\ tokens = {}
    /\ hits = NoHits
    /\ \E y \in Years, m \in Months, w \in WeekNumbers, wd \in Weekdays :
          last = [op |-> "input", year |-> y, month |-> m, weekNumber |-> w, weekday |-> wd]
    /\ mail = <<>>
    /\ audit = <<>>

CalendarNext == ApplyGetNthWeekdayOfMonth

CalendarSpec == CalendarInit /\ [][CalendarNext]_vars

\* The mail service near the end of a window of each of its rate limiters,
\* with and without API keys and SMTP credentials configured.
MailInit ==
    /\ bookings = {}
    /\ nextId = 1
    /\ sessions = [i \in {} |-> 0]
    /\ config = [max_bookings_per_day |-> 2,
                 time_selection_enabled |-> FALSE,
                 test_mode_enabled |-> FALSE]
    /\ services = [s \in Services |-> NoLimit]
    /\ cities = [c \in Cities |-> [enabled |-> TRUE, cutoff_date |-> NULL]]
    /\ \E smtp \in BOOLEAN, keys \in {{}, {"k1"}} :
          env = [smtp |-> smtp, livemode |-> TRUE, apiKeys |-> keys]
    /\ passages = [service |-> [s \in Services |-> NoPassage],
                   city |-> [c \in Cities |-> NoPassage]]
    /\ variants = {}
    /\ inflight = NoRequests
    /\ admins = {}
    /\ adminSeq = 0
    /\ tokens = {}
    /\ \E g \in (GeneralMax - MaxRemaining)..GeneralMax,
          e \in (EmailMax - MaxRemaining)..EmailMax :
          hits = [general |-> g, email |-> e]
    /\ last = Answer("init", NULL, NULL, 0, TRUE, "")
    /\ mail = <<>>
    /\ audit = <<>>

MailNext ==
    \E method \in Methods, path \in Paths, origin \in Origins, body \in Bodies,
       key \in ApiKeyInputs, accepted \in BOOLEAN :
       MailRequest(method, path, origin, body, key, accepted)

MailSpec == MailInit /\ [][MailNext]_vars

\* One send-template request of every subject, template and data object
\* within the bounds.
SeqsUpTo(S, n) == UNION {[1..k -> S] : k \in 0..n}
DataObjects ==
    {d \in SeqsUpTo(DataKeys \X DataValues, Cardinality(DataKeys)) :
        \A i, j \in DOMAIN d : d[i][1] = d[j][1] => i = j}

TemplateInit ==
    /\ bookings = {}
    /\ nextId = 1
    /\ sessions = [i \in {} |-> 0]
    /\ config = [max_bookings_per_day |-> 2,
                 time_selection_enabled |-> FALSE,
                 test_mode_enabled |-> FALSE]
    /\ services = [s \in Services |-> NoLimit]
    /\ cities = [c \in Cities |-> [enabled |-> TRUE, cutoff_date |-> NULL]]
    /\ \E smtp \in BOOLEAN : env = [smtp |-> smtp, livemode |-> TRUE, apiKeys |-> {"k1"}]
    /\ passages = [service |-> [s \in Services |-> NoPassage],
                   city |-> [c \in Cities |-> NoPassage]]
    /\ variants = {}
    /\ inflight = NoRequests
    /\ admins = {}
    /\ adminSeq = 0
    /\ tokens = {}
    /\ hits = NoHits
    /\ last = Answer("init", NULL, NULL, 0, TRUE, "")
    /\ mail = <<>>
    /\ audit = <<>>

TemplateNext ==
    \E subject \in SeqsUpTo(Pieces, 1), template \in SeqsUpTo(Pieces, MaxTemplateLen),
       data \in DataObjects, accepted \in BOOLEAN :
       SendTemplate(subject, template, data, accepted)

TemplateSpec == TemplateInit /\ [][TemplateNext]_vars

\* Payment confirmations handled at the same time, for checkout sessions of
\* one city, date and customer and for existing bookings.
ConcurrentInit ==
    /\ bookings = {}
    /\ nextId = 1
    /\ sessions = [i \in {} |-> 0]
    /\ config = [max_bookings_per_day |-> 2,
                 time_selection_enabled |-> FALSE,
                 test_mode_enabled |-> FALSE]
    /\ services = [s \in Services |-> IF s = "pro" THEN 1 ELSE NoLimit]
    /\ cities = [c \in Cities |-> [enabled |-> c # "nice", cutoff_date |-> NULL]]
    /\ \E smtp \in BOOLEAN : env = [smtp |-> smtp, livemode |-> TRUE]
    /\ passages = [service |-> [s \in Services |-> NoPassage],
                   city |-> [c \in Cities |-> NoPassage]]
    /\ variants = {}
    /\ inflight = NoRequests
    /\ admins = {}
    /\ adminSeq = 0
    /\ tokens = {}
    /\ hits = NoHits
    /\ last = Answer("init", NULL, NULL, 0, TRUE, "")
    /\ mail = <<>>
    /\ audit = <<>>

ConcurrentNext ==
    \/ \E s \in Services, t \in TimeInputs :
          CreateCheckoutSessionData("lille", Min(Emails), s, Min(Dates), t)
    \/ \E id \in 1..MaxBookings : CreateCheckoutSessionId(id)
    \/ \E r \in Requests, kind \in {"webhook", "verify"}, sid \in SessionIds :
          Arrive(r, kind, sid)
    \/ \E r \in Requests, isPaid \in BOOLEAN, accepted \in BOOLEAN :
          Resume(r, isPaid, accepted)

ConcurrentSpec == ConcurrentInit /\ [][ConcurrentNext]_vars

\* The admin-account routes, their requests interleaved at bcrypt.hash, on
\* an empty admins table.
AccountsInit ==
    /\ bookings = {}
    /\ nextId = 1
    /\ sessions = [i \in {} |-> 0]
    /\ config = [max_bookings_per_day |-> 2,
                 time_selection_enabled |-> FALSE,
                 test_mode_enabled |-> FALSE]
    /\ services = [s \in Services |-> NoLimit]
    /\ cities = [c \in Cities |-> [enabled |-> TRUE, cutoff_date |-> NULL]]
    /\ env = [smtp |-> TRUE, livemode |-> TRUE]
    /\ passages = [service |-> [s \in Services |-> NoPassage],
                   city |-> [c \in Cities |-> NoPassage]]
    /\ variants = {}
    /\ inflight = NoRequests
    /\ admins = {}
    /\ adminSeq = 0
    /\ tokens = {}
    /\ hits = NoHits
    /\ last = AdminAnswer("init", NULL, NULL, 0, "")
    /\ mail = <<>>
    /\ audit = <<>>

AccountsNext ==
    \/ \E r \in Requests, username \in Usernames \cup {""} :
          AdminInit(r, username, "secret1")
    \/ \E email \in Usernames \cup {""}, accepted \in BOOLEAN : ForgotPassword(email, accepted)
    \/ \E token \in 1..MaxTokens : TokenExpires(token)
    \/ \E r \in Requests, token \in (1..MaxTokens) \cup {NULL},
          newPassword \in {"abc", "secret2", "secret3"} :
          ResetPassword(r, token, newPassword)
    \/ \E r \in Requests : HashResolves(r)

AccountsSpec == AccountsInit /\ [][AccountsNext]_vars

\* User management by the holders of signed tokens, on the same empty table:
\* one create or update at a time, and the init requests beside it.
UsersNext ==
    \/ \E r \in Requests, username \in Usernames \cup {""} :
          AdminInit(r, username, "secret1")
    \/ \E actor \in Claims, username \in Usernames, role \in {"", "admin", "superadmin"} :
          CreateUser(Min(Requests), actor, username, "secret1", role)
    \/ \E actor \in Claims, id \in 1..MaxAdmins, role \in RoleInputs,
          password \in {"", "secret1"} :
          UpdateUser(Min(Requests), actor, id, "", role, password)
    \/ \E actor \in Claims, id \in 1..MaxAdmins : DeleteUser(actor, id)
    \/ \E r \in Requests : HashResolves(r)

UsersSpec == AccountsInit /\ [][UsersNext]_vars

\* The passages an admin submits for a city: none, the third Wednesday, every
\* Monday (week 0), the first Sunday (weekday 0), and two passages at once.
GivenPassages ==
    {NoPassage, Passage(3, 3, NULL, NULL), Passage(0, 1, NULL, NULL),
     Passage(1, 0, NULL, NULL), Passage(2, 2, 0, 0)}

\* City administration and the availability query, the server on UTC.
CityInit ==
    /\ bookings = {}
    /\ nextId = 1
    /\ sessions = [i \in {} |-> 0]
    /\ config = [max_bookings_per_day |-> 2,
                 time_selection_enabled |-> FALSE,
                 test_mode_enabled |-> FALSE]
    /\ services = [s \in Services |-> NoLimit]
    /\ cities = [c \in Cities |-> [enabled |-> TRUE, cutoff_date |-> NULL]]
    /\ env = [smtp |-> TRUE, livemode |-> TRUE, tz |-> 0]
    /\ passages = [service |-> [s \in Services |-> NoPassage],
                   city |-> [c \in Cities |-> NoPassage]]
    /\ variants = {}
    /\ inflight = NoRequests
    /\ admins = {}
    /\ adminSeq = 0
    /\ tokens = {}
    /\ hits = NoHits
    /\ last = CityAnswer("init", "", NoPassage, 0)
    /\ mail = <<>>
    /\ audit = <<>>

CityNext ==
    \/ \E c \in {"lyon", "paris"}, given \in GivenPassages, enabled \in BOOLEAN :
          AddServiceCity(c, given, enabled)
    \/ \E c \in {"lyon", "paris"}, given \in GivenPassages, enabled \in BOOLEAN :
          UpdateServiceCity(c, given, enabled)
    \/ \E c \in {"lyon", "paris"} : DeleteServiceCity(c)
    \/ \E r \in QueryRanges : AvailableDates("lyon", "", r[1], r[2])

CitySpec == CityInit /\ [][CityNext]_vars

\* The booking API together with the admin's deletions of services, cities
\* and variants, on bookings of one city, date and customer.
VariantRows == {[id |-> 1, service |-> "pro"]}

CatalogInit ==
    /\ bookings = {}
    /\ nextId = 1
    /\ sessions = [i \in {} |-> 0]
    /\ config = [max_bookings_per_day |-> 2,
                 time_selection_enabled |-> FALSE,
                 test_mode_enabled |-> FALSE]
    /\ services = [s \in Services |-> IF s = "pro" THEN 1 ELSE NoLimit]
    /\ cities = [c \in Cities |-> [enabled |-> c # "nice", cutoff_date |-> NULL]]
    /\ env = [smtp |-> TRUE, livemode |-> TRUE]
    /\ passages = [service |-> [s \in Services |-> NoPassage],
                   city |-> [c \in Cities |-> NoPassage]]
    /\ variants = VariantRows
    /\ inflight = NoRequests
    /\ admins = {}
    /\ adminSeq = 0
    /\ tokens = {}
    /\ hits = NoHits
    /\ last = Answer("init", NULL, NULL, 0, TRUE, "")
    /\ mail = <<>>
    /\ audit = <<>>

CatalogNext ==
    \/ \E s \in Services : DeleteService(s)
    \/ DeleteServiceCity("lille")
    \/ \E v \in {x.id : x \in VariantRows} : DeleteVariant(v)
    \/ \E e \in Emails : RgpdDelete(e)
    \/ \E id \in 1..MaxBookings : AdminUpdateStatus(id, "cancelled")
    \/ \E s \in Services, t \in TimeInputs :
          CreateCheckoutSessionData("lille", Min(Emails), s, Min(Dates), t)
    \/ \E id \in 1..MaxBookings : CreateCheckoutSessionId(id)
    \/ \E sid \in SessionIds : Webhook(sid)
    \/ \E sid \in SessionIds : VerifyPayment(sid, TRUE)
    \/ \E s \in Services : BookingRequest("lille", Min(Emails), s, Min(Dates), "10:00")

CatalogSpec == CatalogInit /\ [][CatalogNext]_vars

(* ============================== claims ================================ *)

Confirmations == {"webhook", "verify"}
IsPaid(b) == b.payment_status = "paid"
\* b is paid after the step and was not a paid row before it.
BecomesPaid(b) ==
    /\ b \in bookings'
    /\ IsPaid(b)
    /\ \A o \in bookings : o.id = b.id => ~IsPaid(o)

\* C1: a payment confirmation (webhook or verify-payment, either flow) makes
\* no further booking on a date paid when the paid, non-cancelled bookings of
\* that date, in the booking's capacity scope, already reach the capacity.
C1_NoConfirmationAtCapacity ==
    [][last'.op \in Confirmations =>
         \A b \in bookings' :
            BecomesPaid(b) =>
               currentCount(bookings, b.preferred_date, b.service_type)
                  < maxBookingsPerDay(b.service_type)]_vars

\* C2: a second confirmation in succession for the same booking, already
\* pending and paid, changes no booking, succeeds and sends no email.
C2_ConfirmationIdempotent ==
    [][(/\ last.op \in Confirmations /\ last.ok /\ last.err \in {"", "already"}
        /\ last'.op \in Confirmations
        /\ last.bid # NULL /\ last'.bid = last.bid
        /\ \E b \in bookings : b.id = last.bid /\ b.status = "pending" /\ IsPaid(b))
       => (bookings' = bookings /\ last'.ok /\ mail' = <<>>)]_vars

\* C3: the confirmations of one checkout session that carries the booking
\* data leave at most one row with that session id, and each of them is
\* answered as a success.
C3_RedeliveryOneRowAndSuccess ==
    /\ \A sid \in DataSessionIds :
          Cardinality({b \in bookings : b.stripe_session_id = sid}) <= 1
    /\ (/\ last.op \in Confirmations
        /\ last.sid \in DataSessionIds
        /\ last.err \notin {"not_paid", "test_mode_disabled"}
        /\ \E b \in bookings : b.stripe_session_id = last.sid)
       => (last.ok /\ last.code = 200)

\* The request is complete, for an enabled city, not beyond its cutoff date,
\* below capacity and without a (date, time) conflict.
AcceptableBookingRequest(city, svc, d, t) ==
    /\ checkServiceCity(city)
    /\ ~BeyondCutoff(city, d)
    /\ d # NoDate
    /\ config.time_selection_enabled => t # ""
    /\ currentCount(bookings, d, svc) < maxBookingsPerDay(svc)
    /\ \A b \in bookings :
          ~(b.preferred_date = d /\ b.preferred_time = (IF t = "" THEN DefaultTime ELSE t))

\* C4: an acceptable POST /api/booking answers ok:true with a bookingId,
\* stores exactly one new booking, awaiting_payment and unpaid, and sends no
\* email.
C4_BookingRequestStored ==
    [][\A c \in Cities, e \in Emails, s \in Services, d \in DateInputs, t \in TimeInputs :
          (AcceptableBookingRequest(c, s, d, t) /\ BookingRequest(c, e, s, d, t))
          => /\ last'.ok /\ last'.code = 200 /\ last'.bid # NULL
             /\ \E b \in bookings' :
                   /\ b.id = last'.bid
                   /\ b.status = "awaiting_payment" /\ b.payment_status = "unpaid"
                   /\ bookings' = bookings \cup {b}
                   /\ b \notin bookings
             /\ mail' = <<>>]_vars

\* C5: on no date do the paid, non-cancelled bookings (of the service when it
\* has its own limit, of all services otherwise) exceed the capacity.
C5_CapacityNeverExceeded ==
    \A d \in Dates, svc \in Services :
       currentCount(bookings, d, svc) <= maxBookingsPerDay(svc)

\* C6: no two non-cancelled bookings share a (preferredDate, preferredTime).
C6_NoDoubleBooking ==
    \A b1, b2 \in bookings :
       (/\ b1.id # b2.id
        /\ b1.status # "cancelled" /\ b2.status # "cancelled")
       => ~(/\ b1.preferred_date = b2.preferred_date
            /\ b1.preferred_time = b2.preferred_time)

\* Two live bookings stand on one date and a further request for a taken
\* (date, time) has just been turned away.
C6_Witness ==
    /\ \E b1, b2 \in bookings :
          /\ b1.id # b2.id
          /\ b1.preferred_date = b2.preferred_date
          /\ b1.status # "cancelled" /\ b2.status # "cancelled"
    /\ last.err \in {"conflict", "dberr"}

C8_StatusOnlyAwaitingToPending ==
    [][last'.op \in Confirmations =>
         \A b \in bookings, a \in bookings' :
            (a.id = b.id /\ a.status # b.status)
            => (b.status = "awaiting_payment" /\ a.status = "pending")]_vars

\* C9: every confirmation that makes a booking paid leaves it paid and
\* pending and, SMTP being configured, sends exactly one confirmation email
\* to the operator with the customer as reply-to.
C9_PaidPendingAndOneMail ==
    [][last'.op \in Confirmations =>
         \A b \in bookings' :
            BecomesPaid(b) =>
               /\ b.status = "pending"
               /\ env.smtp => mail' = <<ConfirmationMail(b)>>]_vars

\* C10: a confirmation refused because the date is full creates or confirms
\* no booking and sends the operator a notification that the payment must be
\* refunded.
C10_FullDateAlert ==
    [][(last'.op \in Confirmations /\ last'.err = "full")
       => /\ bookings' = bookings
          /\ \E i \in DOMAIN mail' :
                mail'[i].kind = "date_full_refund" /\ mail'[i].to = Operator]_vars

C12_UnpaidNeverCounts ==
    \A gone \in SUBSET {b \in bookings : b.payment_status = "unpaid"} :
       LET rest == bookings \ gone IN
       /\ \A d \in Dates, svc \in Services :
             (currentCount(bookings, d, svc) >= maxBookingsPerDay(svc))
                <=> (currentCount(rest, d, svc) >= maxBookingsPerDay(svc))
       /\ \A svc \in Services \cup {""} :
             fullDates(bookings, svc, 1, MaxDate) = fullDates(rest, svc, 1, MaxDate)

\* The webhook has just created a paid booking on a date where an unpaid,
\* awaiting_payment booking of the same service already stood, the unpaid one
\* alone being as many as the service's limit.
C12_Witness ==
    /\ last.op = "webhook" /\ last.err = ""
    /\ \E a, b \in bookings :
          /\ a.id = last.bid /\ a.id # b.id /\ a.payment_status = "paid"
          /\ b.payment_status = "unpaid" /\ b.status = "awaiting_payment"
          /\ a.preferred_date = b.preferred_date
          /\ a.service_type = b.service_type
          /\ useServiceLimit(a.service_type)
          /\ maxBookingsPerDay(a.service_type) = 1

\* C13: with time selection disabled, no booking request and no payment
\* confirmation is turned away over the (date, time) slot of another booking:
\* neither by the conflict check nor by the table's UNIQUE constraint (the
\* only database error of a confirmation's insert).  Redeliveries, turned
\* away over the session's own booking, are left aside.
C13_NoSlotRejectionWhenTimeSelectionOff ==
    ~config.time_selection_enabled =>
       /\ ~(last.op = "booking" /\ last.err = "conflict")
       /\ ~(/\ last.op \in Confirmations
            /\ last.err \in {"conflict", "dberr"}
            /\ \A b \in bookings : b.stripe_session_id # last.sid)

\* C14: in every answer of the availability query, a date of the range is in
\* fullDates exactly when its paid, non-cancelled bookings (of the queried
\* service when that service has its own limit, of all services otherwise)
\* are as many as the effective capacity.
C14_FullDatesIffAtCapacity ==
    (last.op = "available_dates" /\ last.code = 200) =>
       \A d \in (last.startDate)..(last.endDate) :
          d \in last.fullDates
             <=> currentCount(bookings, d, last.serviceType)
                    >= maxBookingsPerDay(last.serviceType)

\* A (week, weekday) pair of the configuration is set.
DefinesPassage(cfg) ==
    \/ cfg.passage1_week # NULL /\ cfg.passage1_day # NULL
    \/ cfg.passage2_week # NULL /\ cfg.passage2_day # NULL

\* The query that `last` answers gave the dates that cfg alone gives (none
\* when there is no cfg: source "").
AnsweredFrom(source, cfg) ==
    last.allowedDates.dates
       = allowedDatesFor([source |-> source, config |-> cfg], last.startDate, last.endDate)

\* C15: the availability query uses the service's passages alone when the
\* service defines a passage, else the passages of the city (an enabled
\* service city) when it defines one, else no date restriction.
C15_PassagePrecedence ==
    (last.op = "available_dates" /\ last.code = 200) =>
       IF last.serviceType \in DOMAIN services
          /\ DefinesPassage(passages.service[last.serviceType])
       THEN AnsweredFrom("service", passages.service[last.serviceType])
       ELSE IF /\ last.city \in DOMAIN cities /\ cities[last.city].enabled
               /\ DefinesPassage(passages.city[last.city])
       THEN AnsweredFrom("city", passages.city[last.city])
       ELSE AnsweredFrom("", NoPassage)

\* C16: allowedDates is null exactly when no passage restriction applies;
\* when the configuration in use defines a passage, allowedDates is the set
\* of its passage dates from startDate to endDate, also when there is none.
C16_AllowedDatesNullIffUnrestricted ==
    (last.op = "available_dates" /\ last.code = 200) =>
       LET pc == passageConfig(last.city, last.serviceType)
           applies == pc.source # "" /\ DefinesPassage(pc.config)
       IN /\ last.allowedDates.null <=> ~applies
          /\ applies =>
                last.allowedDates.dates
                   = {d \in (last.startDate)..(last.endDate) :
                         d \in passageDates(pc.config, getFullYear(d), getMonth(d))}

\* The dates of month (y, m) and those of them that fall on weekday wd.
MonthDays(y, m) == {NewDate(y, m, d) : d \in 1..DaysInMonth(y, m)}
OnWeekday(y, m, wd) == {n \in MonthDays(y, m) : getDay(n) = wd}
Range(seq) == {seq[i] : i \in DOMAIN seq}

\* C17: getNthWeekdayOfMonth(year, month, weekNumber, weekday) returns, for
\* week 0, all the 4 or 5 dates of the month on that weekday; for weeks 1..4,
\* exactly the Nth date of the month on that weekday, or nothing when there
\* is none; for week 5, exactly one date, on that weekday, the last of the
\* month.  Every returned date lies in the month.
C17_NthWeekdayOfMonth ==
    last.op = "getNthWeekdayOfMonth" =>
       LET on == OnWeekday(last.year, last.month, last.weekday)
           got == Range(last.dates)
       IN /\ got \subseteq MonthDays(last.year, last.month)
          /\ Len(last.dates) = Cardinality(got)
          /\ last.weekNumber = 0 =>
                (got = on /\ Cardinality(got) \in {4, 5})
          /\ last.weekNumber \in 1..4 =>
                LET nth == {n \in on :
                              Cardinality({k \in on : k < n}) = last.weekNumber - 1}
                IN got = nth
          /\ last.weekNumber = 5 =>
                /\ Cardinality(got) = 1
                /\ got \subseteq on
                /\ \A n \in got : \A k \in on : k <= n

\* The last occurrence has been asked of a month that has only four.
C17_Witness ==
    /\ last.op = "getNthWeekdayOfMonth"
    /\ last.weekNumber = 5
    /\ Len(last.dates) = 1
    /\ Cardinality(OnWeekday(last.year, last.month, last.weekday)) = 4

\* C18: the admin status update with one of the five statuses sets the
\* booking's status to it whatever the status was, leaves its payment status
\* and every other booking as they were, and writes one audit entry with the
\* old and the new status; with any other status it answers 400 and changes
\* neither the bookings nor the audit log.
C18_AdminStatusUpdate ==
    [][\A id \in 1..MaxBookings, st \in StatusInputs :
          (last'.op = "admin_status" /\ AdminUpdateStatus(id, st)) =>
             IF st \in {"pending", "confirmed", "completed", "cancelled", "awaiting_payment"}
             THEN /\ last'.code = 200
                  /\ \A b \in bookings :
                        IF b.id = id
                        THEN /\ [b EXCEPT !.status = st] \in bookings'
                             /\ audit' = <<[action |-> "STATUS_CHANGE", entityId |-> id,
                                            old |-> b.status, new |-> st]>>
                        ELSE b \in bookings'
                  /\ Cardinality(bookings') = Cardinality(bookings)
             ELSE /\ last'.code = 400
                  /\ bookings' = bookings
                  /\ audit' = <<>>]_vars

\* The admin has moved a paid booking from one status to another, and the
\* audit log holds the change.
C18_Witness ==
    /\ last.op = "admin_status" /\ last.code = 200
    /\ Len(audit) = 1 /\ audit[1].old # "" /\ audit[1].old # audit[1].new
    /\ \E b \in bookings :
          b.id = last.bid /\ b.status = audit[1].new /\ b.payment_status = "paid"

\* C19: booking rows are removed only by the RGPD erasure: a booking request,
\* a payment confirmation, the creation of a checkout session, an admin status
\* update and the deletion of a service, a city or a variant leave every
\* booking that existed in the table.
C19_BookingsRemovedOnlyByRgpd ==
    [][last'.op # "rgpd_delete" =>
          \A b \in bookings : \E a \in bookings' : a.id = b.id]_vars

\* A service has been deleted and a booking of that service is still there.
C19_Witness ==
    /\ last.op = "delete_service" /\ last.code = 200
    /\ \E b \in bookings : b.service_type \notin DOMAIN services

\* The request that `last` answers named an /api/ path and carried no key, or
\* a key that is not configured, while at least one key is configured.
KeylessApiRequest ==
    /\ last.op = "mail" /\ last.path \in ApiPaths
    /\ env.apiKeys # {} /\ last.key \notin env.apiKeys

\* C20 as stated: with an API key configured, every request to an /api/ path
\* without a key is answered 401 and every one with a key that is not
\* configured 403, no email being sent; GET /health is answered without a key.
C20_ApiKeyRequired ==
    /\ KeylessApiRequest =>
          /\ last.code = (IF last.key = "" THEN 401 ELSE 403)
          /\ mail = <<>>
    /\ (last.op = "mail" /\ last.method = "GET" /\ last.path = "/health" /\ last.key = "")
          => last.code = 200

\* C20, amended: such a request is answered 401 or 403 once it has passed
\* CORS, the body parser and the rate limiters, unless its path is
\* /api/health, which the key check lets through to the 404 handler; one
\* refused earlier is answered 204, 429 or 500; none of them sends an email.
\* GET /health, once past CORS and the body parser, is answered 200 without
\* a key.
C20_ApiKeyRequiredPastLimiters ==
    /\ KeylessApiRequest =>
          /\ mail = <<>>
          /\ IF last.err \in {"cors", "preflight", "body", "rate_limit", "email_limit"}
             THEN last.code \in {204, 429, 500}
             ELSE IF last.path = "/api/health"
             THEN last.code = 404
             ELSE last.code = (IF last.key = "" THEN 401 ELSE 403)
    /\ (/\ last.op = "mail" /\ last.method = "GET" /\ last.path = "/health"
        /\ last.key = "" /\ last.origin # "foreign" /\ last.body # "malformed")
          => last.code = 200

\* A well-formed POST /api/send without a key, under both rate limits, has been refused with 401 while SMTP is configured.
C20_Witness ==
    /\ KeylessApiRequest /\ env.smtp
    /\ last.method = "POST" /\ last.path = "/api/send" /\ last.key = ""
    /\ last.body = "valid" /\ last.origin = ""
    /\ last.code = 401 /\ mail = <<>>

\* The value the data object gives a piece: that of its key for a placeholder
\* of a key of data, the piece itself otherwise.
ValueOf(piece, data) ==
    IF \E i \in DOMAIN data : piece = Placeholder(data[i][1])
    THEN data[CHOOSE i \in DOMAIN data : piece = Placeholder(data[i][1])][2]
    ELSE piece
Substituted(text, data) == [i \in DOMAIN text |-> ValueOf(text[i], data)]

\* C21: in the email POST /api/send-template sends, every {{key}} of a key of
\* data stands replaced by data[key], in the text, the HTML and the subject,
\* and every other piece is the one of the request.
C21_TemplatePlaceholdersReplaced ==
    (last.op = "send_template" /\ last.code = 200) =>
       /\ mail[1].text = Substituted(last.template, last.data)
       /\ mail[1].html = Substituted(last.template, last.data)
       /\ mail[1].subject = Substituted(last.subject, last.data)

\* A confirmation stores, in this step, a booking that was not in the table.
NewBookings == {b \in bookings' : getBookingById(bookings, b.id) = {}}

RECURSIVE MonthsFrom(_, _, _, _)
MonthsFrom(y, m, ye, me) ==
    IF y > ye \/ (y = ye /\ m > me) THEN <<>>
    ELSE <<<<y, m>>>> \o (IF m = LastMonth THEN MonthsFrom(y + 1, 0, ye, me)
                                           ELSE MonthsFrom(y, m + 1, ye, me))

\* C23: for a range with startDate <= endDate, every month that intersects
\* [startDate, endDate] is processed exactly once, and allowedDates holds
\* every date of a configured passage from startDate to endDate, both
\* included, and no date twice.
C23_EveryMonthOnceEveryPassageDate ==
    (/\ last.op = "available_dates" /\ last.code = 200
     /\ last.startDate <= last.endDate
     /\ passageConfig(last.city, last.serviceType).source # "") =>
       LET cfg == passageConfig(last.city, last.serviceType).config IN
       /\ last.months = MonthsFrom(getFullYear(last.startDate), getMonth(last.startDate),
                                   getFullYear(last.endDate), getMonth(last.endDate))
       /\ Range(last.array)
             = {d \in (last.startDate)..(last.endDate) :
                   d \in passageDates(cfg, getFullYear(d), getMonth(d))}
       /\ \A i, j \in DOMAIN last.array : last.array[i] = last.array[j] => i = j

\* Request r awaits the transport for a confirmation email.
AwaitsConfirmationMail(q) == q.pc = "mail" /\ q.sent = "confirmation"

PaidAndPending(rows, id) ==
    \E b \in rows : b.id = id /\ b.payment_status = "paid" /\ b.status = "pending"

C25_PaidStaysPaid ==
    [][\A b \in bookings, c \in bookings' :
          (b.id = c.id /\ b.payment_status = "paid")
             => /\ c.payment_status = "paid"
                /\ (b.stripe_payment_intent_id # NULL
                       => c.stripe_payment_intent_id # NULL)]_vars

\* The bookings stored at date d and time t.
BookedAt(rows, d, t) == {b \in rows : b.preferred_date = d /\ b.preferred_time = t}

\* C26: when every booking stored at (D, T) is cancelled, a payment
\* confirmation for a new booking at (D, T) that is paid, not ignored as a
\* test and not refused for capacity stores the new booking at (D, T).
C26_CancelledSlotBookable ==
    [][\A sid \in DOMAIN sessions :
          LET m == sessions[sid]
              t == IF m.time = "" THEN DefaultTime ELSE m.time
          IN (/\ last'.op \in {"webhook", "verify"} /\ last'.sid = sid
              /\ m.bookingId = NULL /\ m.date # NoDate
              /\ BookedAt(bookings, m.date, t) # {}
              /\ \A b \in BookedAt(bookings, m.date, t) : b.status = "cancelled"
              /\ last'.err \notin {"not_paid", "test_mode_disabled", "full"})
                => \E c \in NewBookings : c.preferred_date = m.date /\ c.preferred_time = t]_vars

\* Request r, of the given kind, is answered in this step after its await.
Answers(r, kind) ==
    inflight[r].pc = "hash" /\ inflight[r].kind = kind /\ inflight'[r].pc = "idle"

\* C27: an init request creates the super admin only when no admin or
\* superadmin exists; under every interleaving of init requests, one that
\* comes to its insert when an admin exists creates nothing and is answered
\* 403.
C27_InitCreatesOneAdmin ==
    [][\A r \in Requests :
          Answers(r, "admin_init") =>
             IF countAdmins(admins) = 0
             THEN Cardinality(admins') = Cardinality(admins) + 1 /\ last'.code = 200
             ELSE admins' = admins /\ last'.code = 403]_vars

\* C28: under every interleaving of reset requests with the same token, a
\* request that comes to its update when the token is already used changes
\* no password and is answered 400.
C28_TokenResetsOnce ==
    [][\A r \in Requests :
          (/\ Answers(r, "reset_password")
           /\ \E t \in tokens : t.token = inflight[r].arg.token /\ t.used)
             => admins' = admins /\ last'.code = 400]_vars

\* The user id is the only one whose role is admin or superadmin.
OnlyAdmin(id) ==
    /\ countAdmins(admins) = 1
    /\ \E a \in admins : a.id = id /\ a.role \in {"admin", "superadmin"}

\* C30: once an admin exists, every user update and delete leaves a user
\* whose role is admin or superadmin; an authorised request to delete the
\* only such user, or to give it another role, is answered 400 and changes
\* nothing; and a delete of the requester's own account removes nothing.
C30_LastAdminKept ==
    [][/\ countAdmins(admins) >= 1 => countAdmins(admins') >= 1
       /\ (/\ inflight' = inflight /\ last'.op \in {"update_user", "delete_user"}
           /\ last'.code # 403 /\ OnlyAdmin(last'.id)
           /\ (last'.op = "delete_user" \/ last'.role \notin {"admin", "superadmin"}))
             => last'.code = 400 /\ admins' = admins
       /\ (last'.op = "delete_user" /\ inflight' = inflight /\ last'.actor = last'.id)
             => last'.code # 200 /\ admins' = admins /\ tokens' = tokens]_vars

\* With a superadmin and other users in the table, a request to give the
\* only admin the role manager has been answered 400.
C30_Witness ==
    /\ Cardinality(admins) > 1
    /\ last.op = "update_user" /\ last.role = "manager" /\ last.code = 400
    /\ last.err = "last_admin" /\ OnlyAdmin(last.id)

\* C29: the passages submitted when a city is created or updated are stored
\* as given, week 0 and weekday 0 included, so that the availability query
\* computes for the city the allowedDates it computes for a service with the
\* same passages.
C29_CityPassageStoredAsGiven ==
    (/\ last.op \in {"add_city", "update_city"} /\ last.code = 200
     /\ last.city \in DOMAIN cities) =>
       /\ passages.city[last.city] = last.given
       /\ \A r \in QueryRanges :
             r[1] # NoDate =>
                allowedDatesFor([source |-> "city", config |-> passages.city[last.city]],
                                r[1], r[2])
                   = allowedDatesFor([source |-> "service", config |-> last.given],
                                     r[1], r[2])

=============================================================================
